---- MODULE Spec2Model ----
(***************************************************************************)
(* A model of pyupdi: the UPDI programmer stack of src/updi (physical      *)
(* layer, data link, application layer, NVM programmer) driving a UPDI     *)
(* target over a half-duplex serial wire.                                  *)
(*                                                                         *)
(* The host code is translated from src/updi/*.py.  The module             *)
(* updi/constants.py is not among the sources; the values of the protocol  *)
(* constants are those of the table at the head of src/pyupdi.py.          *)
(* The target (the microcontroller at the other end of the wire) is the    *)
(* environment: it is modelled from the instruction table of the           *)
(* specification, with its misbehaviour chosen nondeterministically.       *)
(***************************************************************************)
EXTENDS Integers, Sequences, FiniteSets, TLC

(***************************************************************************)
(* Protocol constants (src/pyupdi.py, lines 48-144).                       *)
(***************************************************************************)
UPDI_BREAK == 0
UPDI_LDS == 0
UPDI_STS == 64
UPDI_LD == 32
UPDI_ST == 96
UPDI_LDCS == 128
UPDI_STCS == 192
UPDI_REPEAT == 160
UPDI_KEY == 224
UPDI_PTR_INC == 4
UPDI_PTR_ADDRESS == 8
UPDI_ADDRESS_16 == 4
UPDI_DATA_8 == 0
UPDI_DATA_16 == 1
UPDI_KEY_SIB == 4
UPDI_KEY_KEY == 0
UPDI_KEY_64 == 0
UPDI_KEY_128 == 1
UPDI_SIB_16BYTES == 1
UPDI_REPEAT_WORD == 1
UPDI_PHY_SYNC == 85
UPDI_PHY_ACK == 64
UPDI_MAX_REPEAT_SIZE == 255
UPDI_CS_STATUSA == 0
UPDI_CS_CTRLA == 2
UPDI_CS_CTRLB == 3
UPDI_ASI_KEY_STATUS == 7
UPDI_ASI_RESET_REQ == 8
UPDI_ASI_SYS_STATUS == 11
UPDI_CTRLA_IBDLY_BIT == 7
UPDI_CTRLB_CCDETDIS_BIT == 3
UPDI_CTRLB_UPDIDIS_BIT == 2
UPDI_ASI_KEY_STATUS_CHIPERASE == 3
UPDI_ASI_KEY_STATUS_NVMPROG == 4
UPDI_ASI_SYS_STATUS_RSTSYS == 5
UPDI_ASI_SYS_STATUS_NVMPROG == 3
UPDI_ASI_SYS_STATUS_LOCKSTATUS == 0
UPDI_RESET_REQ_VALUE == 89
UPDI_NVMCTRL_CTRLA == 0
UPDI_NVMCTRL_STATUS == 2
UPDI_NVMCTRL_DATAL == 6
UPDI_NVMCTRL_ADDRL == 8
UPDI_NVMCTRL_ADDRH == 9
UPDI_V0_NVMCTRL_CTRLA_WRITE_PAGE == 1
UPDI_V0_NVMCTRL_CTRLA_PAGE_BUFFER_CLR == 4
UPDI_V0_NVMCTRL_CTRLA_CHIP_ERASE == 5
UPDI_NVMCTRL_CTRLA_WRITE_FUSE == 7
UPDI_NVM_STATUS_WRITE_ERROR == 2
UPDI_NVM_STATUS_EEPROM_BUSY == 1
UPDI_NVM_STATUS_FLASH_BUSY == 0

\* "NVMProg " and "NVMErase" as ASCII codes, first character first.
UPDI_KEY_NVM == <<78, 86, 77, 80, 114, 111, 103, 32>>
UPDI_KEY_CHIPERASE == <<78, 86, 77, 69, 114, 97, 115, 101>>

(***************************************************************************)
(* Integer helpers: Python's &, |, << and >> on non-negative integers.     *)
(***************************************************************************)
RECURSIVE Pow2(_)
Pow2(n) == IF n = 0 THEN 1 ELSE 2 * Pow2(n - 1)

Shl(x, n) == x * Pow2(n)

Shr(x, n) == x \div Pow2(n)

RECURSIVE BitAnd(_, _)
BitAnd(a, b) ==
  IF a = 0 \/ b = 0 THEN 0
  ELSE (a % 2) * (b % 2) + 2 * BitAnd(a \div 2, b \div 2)

RECURSIVE BitOr(_, _)
BitOr(a, b) ==
  IF a = 0 THEN b
  ELSE IF b = 0 THEN a
  ELSE (IF a % 2 = 1 \/ b % 2 = 1 THEN 1 ELSE 0) + 2 * BitOr(a \div 2, b \div 2)

\* list(reversed(list(key)))
Reversed(s) == [i \in 1..Len(s) |-> s[Len(s) + 1 - i]]

\* s[:n] and s[n:] of Python
Take(s, n) == SubSeq(s, 1, IF n < Len(s) THEN n ELSE Len(s))

Drop(s, n) == SubSeq(s, (IF n < Len(s) THEN n ELSE Len(s)) + 1, Len(s))

\* F applied to the value x: x is evaluated once, whatever F does with it
Let(x, F(_)) == F(x)

\* the sequences of ss one after the other; ss is halved so that the
\* evaluation stays shallow
RECURSIVE Flatten(_)
Flatten(ss) ==
  IF Len(ss) = 0 THEN <<>>
  ELSE IF Len(ss) = 1 THEN ss[1]
  ELSE Flatten(SubSeq(ss, 1, Len(ss) \div 2))
       \o Flatten(SubSeq(ss, (Len(ss) \div 2) + 1, Len(ss)))

(***************************************************************************)
(* Device profiles (src/device/device.py).                                 *)
(***************************************************************************)
DEFAULT_SYSCFG_ADDRESS == 3840
DEFAULT_NVMCTRL_ADDRESS == 4096
DEFAULT_SIGROW_ADDRESS == 4352
DEFAULT_FUSES_ADDRESS == 4736

\* Device("attiny817"): the DEVICES_ATTINY_8K branch
DeviceTiny ==
  [ name |-> "attiny817", flash_start |-> 32768, flash_size |-> 8 * 1024,
    flash_pagesize |-> 64, nvmctrl_address |-> DEFAULT_NVMCTRL_ADDRESS,
    fuses_address |-> DEFAULT_FUSES_ADDRESS,
    sigrow_address |-> DEFAULT_SIGROW_ADDRESS, syscfg_address |-> DEFAULT_SYSCFG_ADDRESS ]

\* Device("attiny202"): the DEVICES_ATTINY_2K branch
DeviceTiny2K ==
  [ name |-> "attiny202", flash_start |-> 32768, flash_size |-> 2 * 1024,
    flash_pagesize |-> 64, nvmctrl_address |-> DEFAULT_NVMCTRL_ADDRESS,
    fuses_address |-> DEFAULT_FUSES_ADDRESS,
    sigrow_address |-> DEFAULT_SIGROW_ADDRESS, syscfg_address |-> DEFAULT_SYSCFG_ADDRESS ]

\* Device("avr32da28"): the DEVICE_AVR_D_SERIES branch
DeviceDx ==
  [ name |-> "avr32da28", flash_start |-> 8388608, flash_size |-> 32 * 1024,
    flash_pagesize |-> 256, nvmctrl_address |-> DEFAULT_NVMCTRL_ADDRESS,
    fuses_address |-> 4176,
    sigrow_address |-> DEFAULT_SIGROW_ADDRESS, syscfg_address |-> DEFAULT_SYSCFG_ADDRESS ]

(***************************************************************************)
(* The target: a UPDI instruction decoder over the bytes it receives, the  *)
(* control/status space, the NVM controller and the flash.  Memories are   *)
(* functions with a finite domain; an address outside the domain reads as  *)
(* the erased value.                                                       *)
(***************************************************************************)
NoMem == <<>>

MemGet(m, a, dflt) == IF a \in DOMAIN m THEN m[a] ELSE dflt

MemPut(m, a, v) == (a :> v) @@ m

\* the first 16 characters of the System Information Block, by NVM revision
SibOf(rev) ==
  IF rev = "P:2"
  THEN <<32, 32, 32, 32, 65, 86, 82, 32, 80, 58, 50, 68, 58, 49, 45, 51>>
  ELSE <<116, 105, 110, 121, 65, 86, 82, 32, 80, 58, 48, 68, 58, 48, 45, 51>>

TgtNew(dev, rev, locked) ==
  [ dev |-> dev, rev |-> rev,
    dec |-> "idle", op |-> 0, ph |-> "a", need |-> 0, buf |-> <<>>, addr |-> 0,
    ptr |-> 0, rep |-> 0,
    mem |-> NoMem, pbuf |-> NoMem, reg |-> NoMem, fuses |-> NoMem,
    busy |-> 0, busyArm |-> 0, werr |-> FALSE, werrArm |-> FALSE, ee |-> FALSE,
    erasing |-> 0, pend |-> FALSE,
    nvmprog |-> FALSE, lock |-> locked, rstsys |-> FALSE, keys |-> {},
    off |-> FALSE, hold |-> FALSE, out |-> <<>> ]

InFlash(t, a) == a >= t.dev.flash_start /\ a < t.dev.flash_start + t.dev.flash_size

\* NVMCTRL.STATUS: the controller is busy with the flash, or with the EEPROM
\* when ee has it so, and the write error of the last command stays
TgtStatus(t) ==
  (IF t.busy # 0
   THEN Shl(1, IF t.ee THEN UPDI_NVM_STATUS_EEPROM_BUSY ELSE UPDI_NVM_STATUS_FLASH_BUSY)
   ELSE 0)
  + (IF t.werr THEN Shl(1, UPDI_NVM_STATUS_WRITE_ERROR) ELSE 0)

\* an NVM command stored to NVMCTRL.CTRLA; a command that writes or erases
\* ends in a write error when werrArm has it so
TgtNvmCommand(t, cmd) ==
  IF ~t.nvmprog THEN t
  ELSE IF cmd = UPDI_V0_NVMCTRL_CTRLA_PAGE_BUFFER_CLR
    THEN [t EXCEPT !.pbuf = NoMem, !.busy = t.busyArm]
  ELSE IF cmd = UPDI_V0_NVMCTRL_CTRLA_WRITE_PAGE
    THEN [t EXCEPT !.mem = t.pbuf @@ t.mem, !.pbuf = NoMem, !.busy = t.busyArm,
                   !.werr = @ \/ t.werrArm]
  ELSE IF cmd = UPDI_V0_NVMCTRL_CTRLA_CHIP_ERASE
    THEN [t EXCEPT !.mem = NoMem, !.pbuf = NoMem, !.busy = t.busyArm,
                   !.werr = @ \/ t.werrArm]
  ELSE IF cmd = UPDI_NVMCTRL_CTRLA_WRITE_FUSE
    THEN [t EXCEPT !.fuses =
             MemPut(t.fuses,
                    MemGet(t.reg, t.dev.nvmctrl_address + UPDI_NVMCTRL_ADDRL, 0)
                    + 256 * MemGet(t.reg, t.dev.nvmctrl_address + UPDI_NVMCTRL_ADDRH, 0),
                    MemGet(t.reg, t.dev.nvmctrl_address + UPDI_NVMCTRL_DATAL, 0)),
                   !.busy = t.busyArm, !.werr = @ \/ t.werrArm]
  ELSE t

\* a store reaches the NVM command register, the page buffer when its
\* address lies in the flash, or a register of the NVM controller; any
\* other address keeps nothing
TgtStoreByte(t, a, v) ==
  IF a = t.dev.nvmctrl_address + UPDI_NVMCTRL_CTRLA THEN TgtNvmCommand(t, v)
  ELSE IF InFlash(t, a) THEN [t EXCEPT !.pbuf = MemPut(t.pbuf, a, v)]
  ELSE IF a >= t.dev.nvmctrl_address /\ a <= t.dev.nvmctrl_address + UPDI_NVMCTRL_ADDRH
    THEN [t EXCEPT !.reg = MemPut(t.reg, a, v)]
  ELSE t

RECURSIVE TgtStore(_, _, _)
TgtStore(t, a, bytes) ==
  IF bytes = <<>> THEN t
  ELSE TgtStore(TgtStoreByte(t, a, Head(bytes)), a + 1, Tail(bytes))

TgtLoadByte(t, a) ==
  IF a = t.dev.nvmctrl_address + UPDI_NVMCTRL_STATUS THEN TgtStatus(t)
  ELSE IF InFlash(t, a) THEN MemGet(t.mem, a, 255)
  ELSE IF a \in DOMAIN t.fuses THEN t.fuses[a]
  ELSE MemGet(t.reg, a, 0)

TgtLoad(t, a, n) == [i \in 1..n |-> TgtLoadByte(t, a + i - 1)]

\* a load of NVMCTRL.STATUS is one poll of the busy period
TgtPolled(t, a) ==
  IF a = t.dev.nvmctrl_address + UPDI_NVMCTRL_STATUS /\ t.busy > 0
  THEN [t EXCEPT !.busy = t.busy - 1] ELSE t

TgtCsRead(t, a) ==
  IF a = UPDI_CS_STATUSA THEN 48
  ELSE IF a = UPDI_ASI_KEY_STATUS
    THEN (IF "NVMErase" \in t.keys THEN Shl(1, UPDI_ASI_KEY_STATUS_CHIPERASE) ELSE 0)
         + (IF "NVMProg" \in t.keys THEN Shl(1, UPDI_ASI_KEY_STATUS_NVMPROG) ELSE 0)
  ELSE IF a = UPDI_ASI_SYS_STATUS
    THEN (IF t.rstsys THEN Shl(1, UPDI_ASI_SYS_STATUS_RSTSYS) ELSE 0)
         + (IF t.nvmprog THEN Shl(1, UPDI_ASI_SYS_STATUS_NVMPROG) ELSE 0)
         + (IF t.lock THEN Shl(1, UPDI_ASI_SYS_STATUS_LOCKSTATUS) ELSE 0)
  ELSE 0

\* the release of the reset starts the part again, unless the part is held in
\* reset and never leaves it (hold): an active NVMErase key
\* erases and unlocks it, an active NVMProg key puts an unlocked part in
\* programming mode, and the keys are used up.  The erase of a locked part
\* takes the read of ASI_SYS_STATUS that shows the reset released and
\* busyArm further ones (-1: it never ends), and the lock is kept until it
\* has ended.
TgtResetRelease(t) ==
  LET erase == "NVMErase" \in t.keys
      lock == t.lock /\ (~erase \/ t.busyArm # 0)
  IN [t EXCEPT !.rstsys = FALSE, !.lock = lock,
               !.mem = IF erase THEN NoMem ELSE t.mem,
               !.pbuf = NoMem, !.busy = 0, !.werr = FALSE,
               !.nvmprog = ("NVMProg" \in t.keys) /\ ~lock,
               !.erasing = IF ~(erase /\ lock) THEN 0
                           ELSE IF t.busyArm > 0 THEN t.busyArm + 1 ELSE t.busyArm,
               !.pend = erase /\ lock /\ "NVMProg" \in t.keys,
               !.keys = {}]

\* a read of ASI_SYS_STATUS is one poll of the erase: when the erase ends
\* the lock goes, and the part is in programming mode if the key was there
TgtCsPolled(t, a) ==
  IF a # UPDI_ASI_SYS_STATUS \/ t.erasing <= 0 THEN t
  ELSE IF t.erasing > 1 THEN [t EXCEPT !.erasing = @ - 1]
  ELSE [t EXCEPT !.erasing = 0, !.lock = FALSE, !.nvmprog = t.pend, !.pend = FALSE]

TgtCsWrite(t, a, v) ==
  IF a = UPDI_ASI_RESET_REQ
  THEN IF v = UPDI_RESET_REQ_VALUE THEN [t EXCEPT !.rstsys = TRUE]
       ELSE IF t.rstsys /\ ~t.hold THEN TgtResetRelease(t) ELSE t
  ELSE IF a = UPDI_CS_CTRLB /\ BitAnd(v, Shl(1, UPDI_CTRLB_UPDIDIS_BIT)) # 0
  THEN [t EXCEPT !.off = TRUE, !.keys = {}]
  ELSE t

TgtKey(t, bytes) ==
  IF Reversed(bytes) = UPDI_KEY_NVM THEN [t EXCEPT !.keys = @ \cup {"NVMProg"}]
  ELSE IF Reversed(bytes) = UPDI_KEY_CHIPERASE THEN [t EXCEPT !.keys = @ \cup {"NVMErase"}]
  ELSE t

TgtIdle(t) == [t EXCEPT !.dec = "idle", !.buf = <<>>, !.need = 0, !.ph = "a"]

TgtClass(op) == op - (op % 32)

TgtDataSize(op) == IF op % 4 = UPDI_DATA_16 THEN 2 ELSE 1

TgtPtrMode(op) == (op % 16) - (op % 4)

\* the instruction whose opcode op has arrived starts from u
TgtDecode(t, op, c, u) ==
  IF c = UPDI_LDCS
    THEN TgtIdle(TgtCsPolled([u EXCEPT !.out = @ \o <<TgtCsRead(t, op % 16)>>], op % 16))
  ELSE IF c = UPDI_STCS THEN [u EXCEPT !.dec = "args", !.need = 1]
  ELSE IF c = UPDI_LDS \/ c = UPDI_STS THEN [u EXCEPT !.dec = "args", !.need = 2]
  ELSE IF c = UPDI_REPEAT THEN [u EXCEPT !.dec = "args", !.need = 1 + (op % 4)]
  ELSE IF c = UPDI_KEY
    THEN IF BitAnd(op, UPDI_KEY_SIB) # 0
         THEN TgtIdle([u EXCEPT !.out = @ \o SibOf(t.rev)])
         ELSE [u EXCEPT !.dec = "args", !.need = Shl(8, op % 4)]
  ELSE IF c = UPDI_ST
    THEN IF TgtPtrMode(op) = UPDI_PTR_ADDRESS
         THEN [u EXCEPT !.dec = "args", !.need = TgtDataSize(op)]
         ELSE [u EXCEPT !.dec = "args", !.need = TgtDataSize(op), !.ph = "d"]
  ELSE \* UPDI_LD: the access is repeated rep + 1 times
    TgtIdle([u EXCEPT !.out = @ \o TgtLoad(t, t.ptr, TgtDataSize(op) * (t.rep + 1)),
                      !.ptr = IF TgtPtrMode(op) = UPDI_PTR_INC
                              THEN t.ptr + TgtDataSize(op) * (t.rep + 1) ELSE t.ptr,
                      !.rep = 0])

\* the opcode byte that follows SYNC
TgtOpcode(t, op) ==
  TgtDecode(t, op, TgtClass(op), [t EXCEPT !.op = op, !.buf = <<>>, !.ph = "a"])

TgtAddr(buf) == buf[1] + (IF Len(buf) > 1 THEN 256 * buf[2] ELSE 0)

\* a store through the pointer has its data: the pointer moves on, and a
\* REPEAT that is pending takes the next data
TgtStored(t, s) ==
  IF t.rep > 0 THEN [s EXCEPT !.rep = t.rep - 1, !.buf = <<>>] ELSE TgtIdle(s)

\* the operands of the instruction of class c are complete; ack is t with
\* an ACK sent
TgtOperands(t, c, ack) ==
  IF c = UPDI_STCS THEN TgtIdle(TgtCsWrite(t, t.op % 16, t.buf[1]))
  ELSE IF c = UPDI_LDS
    THEN TgtIdle(TgtPolled([t EXCEPT !.out = @ \o TgtLoad(t, TgtAddr(t.buf), TgtDataSize(t.op))],
                           TgtAddr(t.buf)))
  ELSE IF c = UPDI_STS
    THEN IF t.ph = "a"
         THEN [ack EXCEPT !.addr = TgtAddr(t.buf), !.ph = "d", !.buf = <<>>,
                          !.need = TgtDataSize(t.op)]
         ELSE TgtIdle(TgtStore(ack, t.addr, t.buf))
  ELSE IF c = UPDI_REPEAT THEN TgtIdle([t EXCEPT !.rep = t.buf[1]])
  ELSE IF c = UPDI_KEY THEN TgtIdle(TgtKey(t, t.buf))
  ELSE \* UPDI_ST
    IF t.ph = "a" THEN TgtIdle([ack EXCEPT !.ptr = TgtAddr(t.buf)])
    ELSE TgtStored(t, [TgtStore(ack, t.ptr, t.buf) EXCEPT !.ptr = t.ptr + Len(t.buf)])

TgtExec(t) == TgtOperands(t, TgtClass(t.op), [t EXCEPT !.out = @ \o <<UPDI_PHY_ACK>>])

\* the operand byte b is the last one of the instruction, or not
TgtOperand(u) == IF Len(u.buf) = u.need THEN TgtExec(u) ELSE u

\* one byte arrives at the target
TgtByte(t, b) ==
  IF t.off THEN t
  ELSE IF t.dec = "idle" THEN (IF b = UPDI_PHY_SYNC THEN [t EXCEPT !.dec = "opcode"] ELSE t)
  ELSE IF t.dec = "opcode" THEN TgtOpcode(t, b)
  ELSE TgtOperand([t EXCEPT !.buf = Append(@, b)])

RECURSIVE TgtRun(_, _)
TgtRun(t, bytes) ==
  IF bytes = <<>> THEN t ELSE TgtRun(TgtByte(t, Head(bytes)), Tail(bytes))

\* a double break: the decoder drops the instruction it was in the middle of
TgtBreak(t) == TgtIdle([t EXCEPT !.rep = 0, !.out = <<>>])

(***************************************************************************)
(* The serial wire.  A world record w carries everything an operation of   *)
(* the stack reads or changes:                                             *)
(*   t     the target                  rx    the host's serial input buffer*)
(*   tx    the frames written, one per PHY send, in order                  *)
(*   rcv   the frames returned by PHY receive, in order                    *)
(*   eaten the number of bytes each send read back as its echo             *)
(*   f     the misbehaviour of the wire or target during this operation    *)
(*   k     the number of responses the target has produced                 *)
(*   err   the exception raised ("" when none), ret/val the value returned *)
(*   progmode, write_nvm  the fields of the programmer and the application *)
(*   calls the page writes issued by _write_mem, reads the page reads      *)
(***************************************************************************)
NoFault == [kind |-> "none", at |-> 0]

\* what reaches the host of the k-th response of the target
Faulted(f, k, out) ==
  IF out = <<>> THEN out
  ELSE IF f.kind = "mute" THEN (IF k >= f.at THEN <<>> ELSE out)
  ELSE IF f.at # k THEN out
  ELSE IF f.kind = "silent" THEN <<>>
  ELSE IF f.kind = "garble" THEN <<0>> \o Tail(out)
  ELSE IF f.kind = "short" THEN SubSeq(out, 1, Len(out) - 1)
  ELSE out

\* what the serial port reads back of the bytes of the n-th send: the wire
\* echoes every byte unless the echo of the last byte is lost
Echoed(f, n, command) ==
  IF f.kind = "echo" /\ f.at = n /\ command # <<>>
  THEN SubSeq(command, 1, Len(command) - 1) ELSE command

\* the wire after the target t1 has taken command and answered with t1.out,
\* its k1-th answer if there is one
Wire(w, command, t1, k1) ==
  [w EXCEPT !.t = [t1 EXCEPT !.out = <<>>],
            !.k = k1,
            !.tx = Append(@, command),
            !.rx = @ \o Echoed(w.f, Len(w.tx) + 1, command) \o Faulted(w.f, k1, t1.out)]

Answered(w, command, t1) ==
  Wire(w, command, t1, IF t1.out = <<>> THEN w.k ELSE w.k + 1)

\* serial.Serial.write(command) on the half-duplex wire: the echo and then
\* the target's answer arrive in the input buffer
SerWrite(w, command) ==
  Answered(w, command, TgtRun([w.t EXCEPT !.out = <<>>], command))

\* serial.Serial.read(n) with a timeout: up to n bytes
SerRead(w, n) == [w EXCEPT !.ret = Take(w.rx, n), !.rx = Drop(w.rx, n)]

(***************************************************************************)
(* UpdiPhysical (src/updi/physical.py)                                     *)
(***************************************************************************)
\* what send has read back is dropped
Echo(w) == [w EXCEPT !.eaten = Append(@, Len(w.ret)), !.ret = <<>>]

send(w, command) == Echo(SerRead(SerWrite(w, command), Len(command)))

\* UpdiPhysical(port, baud) without hv: the port is opened, its input buffer
\* empty, and the break of the handshake is sent
\* the baud of the working port: the default of UpdiPhysical.__init__
Baud == 115200

\* serial.Serial(port, baud, parity=PARITY_EVEN, timeout=1, stopbits=STOPBITS_TWO)
WorkingPort == [baud |-> Baud, parity |-> "E", stopbits |-> 2]

\* serial.Serial(self.port, 300, stopbits=STOPBITS_ONE, timeout=1)
TemporaryPort == [baud |-> 300, parity |-> "N", stopbits |-> 1]

\* what is done to the serial port is on record in w.port: the handles that
\* are open, and every opening, closing, and use of the temporary port with
\* the handles open after it
PortEvent(w, ev, h, open) ==
  [w EXCEPT !.port = [open |-> open,
                      log |-> Append(w.port.log, [ev |-> ev, h |-> h, open |-> open])]]

\* serial.Serial(...): a handle on the port is opened, with an empty input
\* buffer
SerOpen(w, h) == PortEvent([w EXCEPT !.rx = <<>>], "open", h, Append(w.port.open, h))

\* close() of the handle h, which drops its input buffer
SerClose(w, h) ==
  PortEvent([w EXCEPT !.rx = <<>>], "close", h,
            SelectSeq(w.port.open, LAMBDA o : o # h))

\* a write or a read on the handle h
SerUse(w, ev, h) == PortEvent(w, ev, h, w.port.open)

initialise_serial(w) == SerOpen(w, WorkingPort)

UpdiPhysical(w) == send(initialise_serial(w), <<UPDI_BREAK>>)

\* send_double_break that opens the temporary port while the working port
\* is still open: the fault C33 excludes
send_double_break_overlapping(w) ==
  Let(Echo(SerRead(SerUse(Wire(SerClose(SerOpen(w, TemporaryPort), WorkingPort),
                               <<UPDI_BREAK, UPDI_BREAK>>, TgtBreak(w.t), w.k),
                          "write", TemporaryPort), 2)),
  LAMBDA w1 :
  initialise_serial(SerClose(SerUse(w1, "read", TemporaryPort), TemporaryPort)))

\* the port is closed and opened at 300 baud; the two breaks are written and
\* their echo is read; that port is closed and the port is opened again at
\* the real baud
send_double_break(w) ==
  Let(Echo(SerRead(SerUse(Wire(SerOpen(SerClose(w, WorkingPort), TemporaryPort),
                               <<UPDI_BREAK, UPDI_BREAK>>, TgtBreak(w.t), w.k),
                          "write", TemporaryPort), 2)),
  LAMBDA w1 :
  initialise_serial(SerClose(SerUse(w1, "read", TemporaryPort), TemporaryPort)))

\* the loop of receive: ser.read() returns the bytes of the input buffer one
\* by one, each taking one off size; once the buffer is empty every read
\* times out and takes one off timeout.  The loop ends with size or timeout
\* at 0: [response, rx, reads]
receive_loop(rx, size, timeout) ==
  LET n == IF size < Len(rx) THEN size ELSE Len(rx)
  IN [response |-> Take(rx, n), rx |-> Drop(rx, n),
      reads |-> n + (IF n < size THEN timeout ELSE 0)]

Received(w, r) ==
  [w EXCEPT !.rx = r.rx, !.ret = r.response, !.rcv = Append(@, r.response)]

receive(w, size) == Received(w, receive_loop(w.rx, size, 1))

\* receive as the loop it is.  The loop stands in l: the bytes still to
\* read (size), the retry counter (timeout) and the response so far.
receive_begin(size) == [size |-> size, timeout |-> 1, response |-> <<>>]

\* while size and timeout
receive_goes_on(l) == l.size # 0 /\ l.timeout # 0

\* an iteration that never counts an empty read: the fault C31 excludes
receive_iteration_unbounded(l, character) ==
  IF character # <<>>
  THEN [l EXCEPT !.response = @ \o character, !.size = @ - 1]
  ELSE l

\* one iteration: character is what self.ser.read() returned, one byte or
\* nothing
receive_iteration(l, character) ==
  IF character # <<>>
  THEN [l EXCEPT !.response = @ \o character, !.size = @ - 1]
  ELSE [l EXCEPT !.timeout = @ - 1]

\* serial.Serial.readline(): what has arrived
ReadLine(w) == [w EXCEPT !.ret = w.rx, !.rx = <<>>]

sib(w) ==
  ReadLine(send(w, <<UPDI_PHY_SYNC, BitOr(BitOr(UPDI_KEY, UPDI_KEY_SIB), UPDI_SIB_16BYTES)>>))

(***************************************************************************)
(* UpdiDatalink (src/updi/link.py)                                         *)
(***************************************************************************)
Raise(w, msg) == [w EXCEPT !.err = msg]

Ok(w) == w.err = ""

NoAck(response) == Len(response) # 1 \/ response[1] # UPDI_PHY_ACK

\* F continues from w unless an exception has been raised
Then(w, F(_)) == IF Ok(w) THEN F(w) ELSE w

\* if len(response) != 1 or response[0] != UPDI_PHY_ACK: raise Exception(msg)
Acked(w, msg) == IF NoAck(w.ret) THEN Raise(w, msg) ELSE w

\* ldcs that takes a missing answer for an error: the fault C32 excludes
ldcs_strict(w, address) ==
  Let(receive(send(w, <<UPDI_PHY_SYNC, BitOr(UPDI_LDCS, BitAnd(address, 15))>>), 1),
      LAMBDA w1 : IF Len(w1.ret) # 1 THEN Raise(w1, "IndexError")
                  ELSE [w1 EXCEPT !.val = w1.ret[1]])

ldcs(w, address) ==
  Let(receive(send(w, <<UPDI_PHY_SYNC, BitOr(UPDI_LDCS, BitAnd(address, 15))>>), 1),
      LAMBDA w1 : IF Len(w1.ret) # 1 THEN [w1 EXCEPT !.val = 0]
                  ELSE [w1 EXCEPT !.val = w1.ret[1]])

stcs(w, address, value) ==
  send(w, <<UPDI_PHY_SYNC, BitOr(UPDI_STCS, BitAnd(address, 15)), value>>)

ld(w, address) ==
  Let(receive(send(w, <<UPDI_PHY_SYNC,
                        BitOr(BitOr(UPDI_LDS, UPDI_ADDRESS_16), UPDI_DATA_8),
                        BitAnd(address, 255), BitAnd(Shr(address, 8), 255)>>), 1),
      LAMBDA w1 : IF w1.ret = <<>> THEN Raise(w1, "IndexError")
                  ELSE [w1 EXCEPT !.val = w1.ret[1]])

\* st that sends the data whatever the first answer was: the fault C5 excludes
st_blind(w, address, value) ==
  Acked(receive(send(receive(send(w, <<UPDI_PHY_SYNC,
                                      BitOr(BitOr(UPDI_STS, UPDI_ADDRESS_16), UPDI_DATA_8),
                                      BitAnd(address, 255),
                                      BitAnd(Shr(address, 8), 255)>>), 1),
                     <<BitAnd(value, 255)>>), 1),
        "Error with st")

st(w, address, value) ==
  Then(Acked(receive(send(w, <<UPDI_PHY_SYNC,
                               BitOr(BitOr(UPDI_STS, UPDI_ADDRESS_16), UPDI_DATA_8),
                               BitAnd(address, 255), BitAnd(Shr(address, 8), 255)>>), 1),
             "Error with st"),
       LAMBDA w1 : Acked(receive(send(w1, <<BitAnd(value, 255)>>), 1), "Error with st"))

st16(w, address, value) ==
  Then(Acked(receive(send(w, <<UPDI_PHY_SYNC,
                               BitOr(BitOr(UPDI_STS, UPDI_ADDRESS_16), UPDI_DATA_16),
                               BitAnd(address, 255), BitAnd(Shr(address, 8), 255)>>), 1),
             "Error with st"),
       LAMBDA w1 : Acked(receive(send(w1, <<BitAnd(value, 255),
                                            BitAnd(Shr(value, 8), 255)>>), 1),
                         "Error with st"))

ld_ptr_inc(w, size) ==
  receive(send(w, <<UPDI_PHY_SYNC, BitOr(BitOr(UPDI_LD, UPDI_PTR_INC), UPDI_DATA_8)>>), size)

ld_ptr_inc16(w, words) ==
  receive(send(w, <<UPDI_PHY_SYNC, BitOr(BitOr(UPDI_LD, UPDI_PTR_INC), UPDI_DATA_16)>>),
          Shl(words, 1))

\* a st_ptr that reads the answer and does not look at it
st_ptr_unchecked(w, address) ==
  receive(send(w, <<UPDI_PHY_SYNC,
                    BitOr(BitOr(UPDI_ST, UPDI_PTR_ADDRESS), UPDI_DATA_16),
                    BitAnd(address, 255), BitAnd(Shr(address, 8), 255)>>), 1)

st_ptr(w, address) ==
  Acked(receive(send(w, <<UPDI_PHY_SYNC,
                          BitOr(BitOr(UPDI_ST, UPDI_PTR_ADDRESS), UPDI_DATA_16),
                          BitAnd(address, 255), BitAnd(Shr(address, 8), 255)>>), 1),
        "Error with st_ptr")

\* an iteration of st_ptr_inc that does not look at the ACK: the fault C6 excludes
st_ptr_inc_body_blind(w, data, n) == receive(send(w, <<data[n + 1]>>), 1)

\* one iteration of the while loop of st_ptr_inc
st_ptr_inc_body(w, data, n) ==
  Acked(receive(send(w, <<data[n + 1]>>), 1), "Error with st_ptr_inc")

\* the iterations n .. m-1 of the while loop, which an exception ends; the
\* range is halved so that the evaluation stays shallow
RECURSIVE st_ptr_inc_loop(_, _, _, _)
st_ptr_inc_loop(w, data, n, m) ==
  IF ~Ok(w) \/ n >= m THEN w
  ELSE IF m - n = 1 THEN st_ptr_inc_body(w, data, n)
  ELSE st_ptr_inc_loop(st_ptr_inc_loop(w, data, n, n + ((m - n) \div 2)),
                       data, n + ((m - n) \div 2), m)

st_ptr_inc(w, data) ==
  IF Len(data) < 1 THEN Raise(w, "IndexError")
  ELSE Then(Acked(receive(send(w, <<UPDI_PHY_SYNC,
                                    BitOr(BitOr(UPDI_ST, UPDI_PTR_INC), UPDI_DATA_8),
                                    data[1]>>), 1),
                  "ACK error with st_ptr_inc"),
            LAMBDA w1 : st_ptr_inc_loop(w1, data, 1, Len(data)))

\* one iteration of the while loop of st_ptr_inc16: data[n + 1] of the code
\* does not exist when a single byte is left
st_ptr_inc16_body(w, data, n) ==
  IF n + 1 >= Len(data) THEN Raise(w, "IndexError")
  ELSE Acked(receive(send(w, <<data[n + 1], data[n + 2]>>), 1), "Error with st_ptr_inc16")

\* the iterations with n = 2j for j in i .. m-1 of the while loop
RECURSIVE st_ptr_inc16_loop(_, _, _, _)
st_ptr_inc16_loop(w, data, i, m) ==
  IF ~Ok(w) \/ i >= m THEN w
  ELSE IF m - i = 1 THEN st_ptr_inc16_body(w, data, 2 * i)
  ELSE st_ptr_inc16_loop(st_ptr_inc16_loop(w, data, i, i + ((m - i) \div 2)),
                         data, i + ((m - i) \div 2), m)

st_ptr_inc16(w, data) ==
  IF Len(data) < 2 THEN Raise(w, "IndexError")
  ELSE Then(Acked(receive(send(w, <<UPDI_PHY_SYNC,
                                    BitOr(BitOr(UPDI_ST, UPDI_PTR_INC), UPDI_DATA_16),
                                    data[1], data[2]>>), 1),
                  "ACK error with st_ptr_inc16"),
            LAMBDA w1 : st_ptr_inc16_loop(w1, data, 1, (Len(data) + 1) \div 2))

\* repeat without repeats -= 1: the fault C8 excludes
repeat_plain(w, repeats) ==
  send(w, <<UPDI_PHY_SYNC, BitOr(UPDI_REPEAT, UPDI_REPEAT_WORD),
            BitAnd(repeats, 255), BitAnd(Shr(repeats, 8), 255)>>)

\* repeats -= 1, then the two bytes of Python's repeats & 0xFF and
\* (repeats >> 8) & 0xFF (two's complement for repeats = -1)
repeat(w, repeats) ==
  LET r == (repeats - 1) % 65536
  IN send(w, <<UPDI_PHY_SYNC, BitOr(UPDI_REPEAT, UPDI_REPEAT_WORD),
               BitAnd(r, 255), BitAnd(Shr(r, 8), 255)>>)

read_sib(w) == sib(w)

\* key that sends the key as it is given: the fault C7 excludes
key_forward(w, size, k) ==
  IF Len(k) # Shl(8, size) THEN Raise(w, "Invalid KEY length!")
  ELSE send(send(w, <<UPDI_PHY_SYNC, BitOr(BitOr(UPDI_KEY, UPDI_KEY_KEY), size)>>), k)

key(w, size, k) ==
  IF Len(k) # Shl(8, size) THEN Raise(w, "Invalid KEY length!")
  ELSE send(send(w, <<UPDI_PHY_SYNC, BitOr(BitOr(UPDI_KEY, UPDI_KEY_KEY), size)>>),
            Reversed(k))

init(w) ==
  stcs(stcs(w, UPDI_CS_CTRLB, Shl(1, UPDI_CTRLB_CCDETDIS_BIT)),
       UPDI_CS_CTRLA, Shl(1, UPDI_CTRLA_IBDLY_BIT))

check(w) == Let(ldcs(w, UPDI_CS_STATUSA), LAMBDA w1 : [w1 EXCEPT !.b = (w1.val # 0)])

\* the recovery that accepts the second check whatever it reads: the fault
\* C13 excludes
recover_unchecked(w) == check(init(send_double_break(w)))

\* UpdiDatalink.__init__ after a first check that failed
recover(w) ==
  Let(check(init(send_double_break(w))),
      LAMBDA w1 : IF ~w1.b THEN Raise(w1, "UPDI initialisation failed") ELSE w1)

\* UpdiDatalink(comport, baud)
UpdiDatalink(w) ==
  Let(check(init(UpdiPhysical(w))), LAMBDA w1 : IF ~w1.b THEN recover(w1) ELSE w1)

(***************************************************************************)
(* Timeout (src/updi/timeout.py); the clock counts milliseconds.           *)
(***************************************************************************)
Timeout(timeout_ms, time) == [timeout_ms |-> timeout_ms, start_time |-> time]

expired(timeout, time) == time - timeout.start_time > timeout.timeout_ms

(***************************************************************************)
(* UpdiApplication (src/updi/application.py): the parts without a polling  *)
(* loop.  The loops are the Poll actions below.                            *)
(***************************************************************************)
Bit(value, bit) == BitAnd(value, Shl(1, bit)) # 0

in_prog_mode(w) ==
  Let(ldcs(w, UPDI_ASI_SYS_STATUS),
      LAMBDA w1 : [w1 EXCEPT !.b = Bit(w1.val, UPDI_ASI_SYS_STATUS_NVMPROG)])

\* _progmode_key without the check of in_prog_mode: the fault C9 excludes
_progmode_key_unchecked(w) ==
  Let(ldcs(key(w, UPDI_KEY_64, UPDI_KEY_NVM), UPDI_ASI_KEY_STATUS),
      LAMBDA w2 : IF ~Bit(w2.val, UPDI_ASI_KEY_STATUS_NVMPROG)
                  THEN Raise(w2, "Key not accepted") ELSE w2)

\* _progmode_key that reads KEY_STATUS and goes on whatever it shows: the
\* fault C24 excludes
_progmode_key_unverified(w) ==
  Let(in_prog_mode(w),
      LAMBDA w1 :
        IF w1.b THEN w1
        ELSE ldcs(key(w1, UPDI_KEY_64, UPDI_KEY_NVM), UPDI_ASI_KEY_STATUS))

_progmode_key(w) ==
  Let(in_prog_mode(w),
      LAMBDA w1 :
        IF w1.b THEN w1
        ELSE Let(ldcs(key(w1, UPDI_KEY_64, UPDI_KEY_NVM), UPDI_ASI_KEY_STATUS),
                 LAMBDA w2 : IF ~Bit(w2.val, UPDI_ASI_KEY_STATUS_NVMPROG)
                             THEN Raise(w2, "Key not accepted") ELSE w2))

\* reset(apply_reset=True) that reads SYS_STATUS and goes on whatever it
\* shows: the fault C28 excludes
reset_apply_unverified(w) ==
  ldcs(stcs(w, UPDI_ASI_RESET_REQ, UPDI_RESET_REQ_VALUE), UPDI_ASI_SYS_STATUS)

\* reset(apply_reset=True); raise("...") of a string is itself a TypeError
reset_apply(w) ==
  Let(ldcs(stcs(w, UPDI_ASI_RESET_REQ, UPDI_RESET_REQ_VALUE), UPDI_ASI_SYS_STATUS),
      LAMBDA w1 : IF ~Bit(w1.val, UPDI_ASI_SYS_STATUS_RSTSYS)
                  THEN Raise(w1, "TypeError") ELSE w1)

\* reset(apply_reset=False) up to its loop
reset_release(w) == stcs(w, UPDI_ASI_RESET_REQ, 0)

execute_nvm_command(w, command) ==
  st(w, w.device.nvmctrl_address + UPDI_NVMCTRL_CTRLA, command)

write_data_words(w, address, data) ==
  IF Len(data) = 2 THEN st16(w, address, data[1] + Shl(data[2], 8))
  ELSE IF Len(data) > Shl(UPDI_MAX_REPEAT_SIZE, 1) THEN Raise(w, "Invalid length")
  ELSE Then(st_ptr(w, address),
            LAMBDA w1 : st_ptr_inc16(repeat(w1, Shr(Len(data), 1)), data))

\* write_data without its range check: the fault C29 excludes
write_data_unchecked(w, address, data) ==
  IF Len(data) = 1 THEN st(w, address, data[1])
  ELSE IF Len(data) = 2
    THEN Then(st(w, address, data[1]), LAMBDA w1 : st(w1, address + 1, data[2]))
  ELSE Then(st_ptr(w, address), LAMBDA w1 : st_ptr_inc(repeat(w1, Len(data)), data))

write_data(w, address, data) ==
  IF Len(data) = 1 THEN st(w, address, data[1])
  ELSE IF Len(data) = 2
    THEN Then(st(w, address, data[1]), LAMBDA w1 : st(w1, address + 1, data[2]))
  ELSE IF Len(data) > UPDI_MAX_REPEAT_SIZE THEN Raise(w, "Invalid length")
  ELSE Then(st_ptr(w, address), LAMBDA w1 : st_ptr_inc(repeat(w1, Len(data)), data))

\* if n > 1: repeat(n)
repeat_if(w, n) == IF n > 1 THEN repeat(w, n) ELSE w

read_data(w, address, size) ==
  IF size > UPDI_MAX_REPEAT_SIZE THEN Raise(w, "Cant read that many bytes in one go")
  ELSE Then(st_ptr(w, address), LAMBDA w1 : ld_ptr_inc(repeat_if(w1, size), size))

read_data_words(w, address, words) ==
  IF words > UPDI_MAX_REPEAT_SIZE THEN Raise(w, "Cant read that many words in one go")
  ELSE Then(st_ptr(w, address), LAMBDA w1 : ld_ptr_inc16(repeat_if(w1, words), words))

\* bytes.strip() of the ASCII blank
RECURSIVE Strip(_)
Strip(s) ==
  IF s # <<>> /\ Head(s) = 32 THEN Strip(Tail(s))
  ELSE IF s # <<>> /\ s[Len(s)] = 32 THEN Strip(SubSeq(s, 1, Len(s) - 1))
  ELSE s

\* sib[lo:hi] of Python
Slice(s, lo, hi) == SubSeq(s, lo + 1, IF hi < Len(s) THEN hi ELSE Len(s))

\* device_info: UpdiDatalink has no method set_24bit_updi, so the call made
\* for the NVM revision "P:2" raises AttributeError after write_nvm was set
device_info(w) ==
  Let(read_sib(w),
      LAMBDA w1 :
        IF Strip(Slice(w1.ret, 8, 11)) = <<80, 58, 50>>
        THEN Raise([w1 EXCEPT !.write_nvm = "v1"], "AttributeError")
        ELSE Let(in_prog_mode(ldcs(w1, UPDI_CS_STATUSA)),
                 LAMBDA w2 :
                   IF ~w2.b THEN w2
                   ELSE Then(read_data(w2, w2.device.sigrow_address, 3),
                             LAMBDA w3 :
                               IF Len(w3.ret) < 3 THEN Raise(w3, "IndexError")
                               ELSE Then(read_data(w3, w3.device.syscfg_address + 1, 1),
                                         LAMBDA w4 : IF Len(w4.ret) < 1
                                                     THEN Raise(w4, "IndexError")
                                                     ELSE w4))))

(***************************************************************************)
(* UpdiNvmProgrammer (src/updi/nvm.py): padding and paging.                *)
(***************************************************************************)
\* pad_data: the loop appends the literal 0, not the parameter character
pad_data(data, blocksize) ==
  IF Len(data) % blocksize > 0
  THEN data \o [i \in 1..(blocksize - (Len(data) % blocksize)) |-> 0]
  ELSE data

\* page_data: len(result) < total_length / size is a comparison of reals
RECURSIVE page_data_loop(_, _, _, _)
page_data_loop(data, size, total_length, result) ==
  IF Len(result) * size < total_length
  THEN page_data_loop(Drop(data, size), size, total_length, Append(result, Take(data, size)))
  ELSE result

\* page_data that stops one page early: the fault C2 excludes
page_data_short(data, size) == page_data_loop(data, size, Len(data) - size, <<>>)

page_data(data, size) == page_data_loop(data, size, Len(data), <<>>)

(***************************************************************************)
(* The running operation.  pc names the operation of the programmer that   *)
(* is running and the polling loop it stands in; an operation runs from    *)
(* its call to its first loop in one step, and every iteration of a loop   *)
(* is a step.                                                              *)
(***************************************************************************)
Idle ==
  [op |-> "idle", at |-> "", address |-> 0, pages |-> <<>>,
   timeout |-> Timeout(0, 0), polls |-> 0, last |-> 0]

At(op, at, address, pages, timeout) ==
  [op |-> op, at |-> at, address |-> address, pages |-> pages,
   timeout |-> timeout, polls |-> 0, last |-> 0]

\* the operation has returned or raised
Done(w) == [w |-> w, pc |-> Idle]

Goto(w, pc) == [w |-> w, pc |-> pc]

\* the call of write_nvm is on record
Called(w, address, page) ==
  [w EXCEPT !.calls = Append(@, [address |-> address, page |-> page])]

\* the loop of _write_mem: the call of write_nvm for the next page.
\* _write_mem passes use_word_access by keyword, which write_nvm_v1 does
\* not accept: with write_nvm = write_nvm_v1 the call raises TypeError.
write_pages(w, address, pages, now) ==
  IF pages = <<>> THEN Done(w)
  ELSE IF w.write_nvm = "v1" THEN Done(Raise(Called(w, address, Head(pages)), "TypeError"))
  ELSE Goto(Called(w, address, Head(pages)),
            At("write_flash", "wfr1", address, pages, Timeout(10000, now)))

\* _write_mem with use_word_access=True
write_flash(w, address, data, now) ==
  IF ~w.progmode THEN Done(Raise(w, "Enter progmode first!"))
  ELSE write_pages(w, address, page_data(pad_data(data, w.device.flash_pagesize),
                                         w.device.flash_pagesize), now)

\* the page read is on record
Reading(w, address) == [w EXCEPT !.reads = Append(@, address)]

\* the loop of _read_mem without address += pagesize: the fault C18 excludes
RECURSIVE read_pages_in_place(_, _, _, _, _)
read_pages_in_place(w, address, pagesize, pages, data) ==
  IF pages = 0 THEN [w EXCEPT !.ret = data]
  ELSE Then(read_data_words(Reading(w, address), address, Shr(pagesize, 1)),
            LAMBDA w1 : read_pages_in_place(w1, address, pagesize, pages - 1,
                                            data \o w1.ret))

\* the loop of _read_mem
RECURSIVE read_pages(_, _, _, _, _)
read_pages(w, address, pagesize, pages, data) ==
  IF pages = 0 THEN [w EXCEPT !.ret = data]
  ELSE Then(read_data_words(Reading(w, address), address, Shr(pagesize, 1)),
            LAMBDA w1 : read_pages(w1, address + pagesize, pagesize, pages - 1,
                                   data \o w1.ret))

\* _read_mem with use_word_access=True
read_flash(w, address, size) ==
  IF ~w.progmode THEN Raise(w, "Enter progmode first!")
  ELSE IF size % w.device.flash_pagesize # 0
    THEN Raise(w, "Only full page aligned flash supported.")
  ELSE read_pages(w, address, w.device.flash_pagesize,
                  size \div w.device.flash_pagesize, <<>>)

read_fuse(w, fusenum) ==
  IF ~w.progmode THEN Raise(w, "Enter progmode first!")
  ELSE ld(w, w.device.fuses_address + fusenum)

\* write_fuse that gives the command before the address and the data: the
\* fault C20 excludes
write_fuse_stores_command_first(w, fusenum, value) ==
  Then(write_data(w, w.device.nvmctrl_address + UPDI_NVMCTRL_CTRLA,
                  <<UPDI_NVMCTRL_CTRLA_WRITE_FUSE>>),
  LAMBDA w1 :
  Then(write_data(w1, w.device.nvmctrl_address + UPDI_NVMCTRL_ADDRL,
                  <<BitAnd(w.device.fuses_address + fusenum, 255)>>),
  LAMBDA w2 :
  Then(write_data(w2, w.device.nvmctrl_address + UPDI_NVMCTRL_ADDRH,
                  <<Shr(w.device.fuses_address + fusenum, 8)>>),
  LAMBDA w3 :
  write_data(w3, w.device.nvmctrl_address + UPDI_NVMCTRL_DATAL, <<value>>))))

\* write_fuse after its wait_flash_ready
write_fuse_stores(w, fusenum, value) ==
  Then(write_data(w, w.device.nvmctrl_address + UPDI_NVMCTRL_ADDRL,
                  <<BitAnd(w.device.fuses_address + fusenum, 255)>>),
  LAMBDA w1 :
  Then(write_data(w1, w.device.nvmctrl_address + UPDI_NVMCTRL_ADDRH,
                  <<Shr(w.device.fuses_address + fusenum, 8)>>),
  LAMBDA w2 :
  Then(write_data(w2, w.device.nvmctrl_address + UPDI_NVMCTRL_DATAL, <<value>>),
  LAMBDA w3 :
  write_data(w3, w.device.nvmctrl_address + UPDI_NVMCTRL_CTRLA,
             <<UPDI_NVMCTRL_CTRLA_WRITE_FUSE>>))))

\* reset(True), reset(False) up to its loop, in which the operation op goes on
toggle_reset(w, op) ==
  Let(reset_apply(w),
      LAMBDA w1 : IF ~Ok(w1) THEN Done(w1)
                  ELSE Goto(reset_release(w1), At(op, "reset", 0, <<>>, Timeout(0, 0))))

\* enter_progmode that enters the NVMErase key as well: the fault C19 excludes
enter_progmode_erasing(w) ==
  Let(_progmode_key(key(w, UPDI_KEY_64, UPDI_KEY_CHIPERASE)),
      LAMBDA w1 : IF ~Ok(w1) THEN Done(w1) ELSE toggle_reset(w1, "enter_progmode"))

\* enter_progmode of the application up to the loop of reset(False)
enter_progmode(w) ==
  Let(_progmode_key(w),
      LAMBDA w1 : IF ~Ok(w1) THEN Done(w1) ELSE toggle_reset(w1, "enter_progmode"))

\* leave_progmode of the application up to the loop of reset(False)
leave_progmode(w) == toggle_reset(w, "leave_progmode")

\* unlock of the application up to the loop of reset(False)
unlock(w) ==
  Let(ldcs(key(w, UPDI_KEY_64, UPDI_KEY_CHIPERASE), UPDI_ASI_KEY_STATUS),
      LAMBDA w1 :
        IF ~Bit(w1.val, UPDI_ASI_KEY_STATUS_CHIPERASE)
        THEN Done(Raise(w1, "Key not accepted"))
        ELSE Let(_progmode_key(w1),
                 LAMBDA w2 : IF ~Ok(w2) THEN Done(w2)
                             ELSE toggle_reset(w2, "unlock_device")))

\* unlock_device that unlocks whatever the progmode flag is: the fault C15
\* excludes
unlock_device_always(w) == unlock(w)

\* unlock_device that sets the progmode flag before it unlocks
unlock_device_flag_first(w) ==
  IF w.progmode THEN Done(w) ELSE unlock([w EXCEPT !.progmode = TRUE])

\* unlock_device up to the loop of reset(False)
unlock_device(w) == IF w.progmode THEN Done(w) ELSE unlock(w)

\* leave_progmode of the programmer that leaves its flag as it is: the
\* fault C16 excludes
after_reset_flag_kept(w, pc, now) ==
  IF pc.op = "enter_progmode" THEN Goto(w, [pc EXCEPT !.at = "nvmprog", !.polls = 0])
  ELSE IF pc.op = "unlock_device"
    THEN Goto(w, [pc EXCEPT !.at = "unlocked", !.polls = 0, !.timeout = Timeout(200, now)])
  ELSE Done(stcs(w, UPDI_CS_CTRLB,
                 BitOr(Shl(1, UPDI_CTRLB_UPDIDIS_BIT), Shl(1, UPDI_CTRLB_CCDETDIS_BIT))))

\* after the loop of reset(False) has ended
after_reset(w, pc, now) ==
  IF pc.op = "enter_progmode" THEN Goto(w, [pc EXCEPT !.at = "nvmprog", !.polls = 0])
  ELSE IF pc.op = "unlock_device"
    THEN Goto(w, [pc EXCEPT !.at = "unlocked", !.polls = 0, !.timeout = Timeout(200, now)])
  ELSE Done([stcs(w, UPDI_CS_CTRLB,
                  BitOr(Shl(1, UPDI_CTRLB_UPDIDIS_BIT), Shl(1, UPDI_CTRLB_CCDETDIS_BIT)))
             EXCEPT !.progmode = FALSE])

\* enter_progmode after its loop "Wait for NVMPROG"
after_nvmprog(w) ==
  Let(in_prog_mode(w),
      LAMBDA w1 : IF ~w1.b THEN Done(Raise(w1, "Failed to enter NVM programming mode"))
                  ELSE Done([w1 EXCEPT !.progmode = TRUE]))

\* unlock and unlock_device after wait_unlocked has returned
after_unlocked(w, unlocked) ==
  IF ~unlocked THEN Done(Raise(w, "Failed to chip erase using key"))
  ELSE Done([w EXCEPT !.progmode = TRUE])

\* chip_erase without the check of the progmode flag: the fault C17 excludes
chip_erase_ungated(w, now) ==
  Goto(w, At("chip_erase", "wfr1", 0, <<>>, Timeout(10000, now)))

chip_erase(w, now) ==
  IF ~w.progmode THEN Done(Raise(w, "Enter progmode first!"))
  ELSE Goto(w, At("chip_erase", "wfr1", 0, <<>>, Timeout(10000, now)))

write_fuse(w, fusenum, value, now) ==
  IF ~w.progmode THEN Done(Raise(w, "Enter progmode first!"))
  ELSE Goto(w, At("write_fuse", "wfr1", fusenum, <<<<value>>>>, Timeout(10000, now)))

\* the next wait_flash_ready of the operation, unless w has raised
next_wait(w, pc, at, now) ==
  IF ~Ok(w) THEN Done(w)
  ELSE Goto(w, [pc EXCEPT !.at = at, !.polls = 0, !.timeout = Timeout(10000, now)])

\* the code that follows a wait_flash_ready, with a write_nvm_v0 that gives
\* WRITE_PAGE whatever became of the fill of the page buffer: the fault C25
\* excludes
after_flash_ready_unacked(w, pc, ready, now) ==
  IF pc.op = "chip_erase"
  THEN IF ~ready THEN Done(Raise(w, "Timeout waiting for flash ready"))
       ELSE IF pc.at = "wfr1"
         THEN next_wait(execute_nvm_command(w, UPDI_V0_NVMCTRL_CTRLA_CHIP_ERASE),
                        pc, "wfr2", now)
       ELSE Done(w)
  ELSE IF pc.op = "write_fuse"
  THEN IF ~ready THEN Done(Raise(w, "Flash not ready for fuse setting"))
       ELSE Done(write_fuse_stores(w, pc.address, pc.pages[1][1]))
  ELSE
    IF ~ready THEN Done(Raise(w, "Timeout waiting for flash ready"))
    ELSE IF pc.at = "wfr1"
      THEN next_wait(execute_nvm_command(w, UPDI_V0_NVMCTRL_CTRLA_PAGE_BUFFER_CLR),
                     pc, "wfr2", now)
    ELSE IF pc.at = "wfr2"
      THEN next_wait(execute_nvm_command(
                       [write_data_words(w, pc.address, Head(pc.pages)) EXCEPT !.err = ""],
                       UPDI_V0_NVMCTRL_CTRLA_WRITE_PAGE),
                     pc, "wfr3", now)
    ELSE write_pages(w, pc.address + Len(Head(pc.pages)), Tail(pc.pages), now)

\* the code that follows a wait_flash_ready, which returned ready
after_flash_ready(w, pc, ready, now) ==
  IF pc.op = "chip_erase"
  THEN IF ~ready THEN Done(Raise(w, "Timeout waiting for flash ready"))
       ELSE IF pc.at = "wfr1"
         THEN next_wait(execute_nvm_command(w, UPDI_V0_NVMCTRL_CTRLA_CHIP_ERASE),
                        pc, "wfr2", now)
       ELSE Done(w)
  ELSE IF pc.op = "write_fuse"
  THEN IF ~ready THEN Done(Raise(w, "Flash not ready for fuse setting"))
       ELSE Done(write_fuse_stores(w, pc.address, pc.pages[1][1]))
  ELSE \* write_nvm_v0 inside _write_mem
    IF ~ready THEN Done(Raise(w, "Timeout waiting for flash ready"))
    ELSE IF pc.at = "wfr1"
      THEN next_wait(execute_nvm_command(w, UPDI_V0_NVMCTRL_CTRLA_PAGE_BUFFER_CLR),
                     pc, "wfr2", now)
    ELSE IF pc.at = "wfr2"
      THEN next_wait(Then(write_data_words(w, pc.address, Head(pc.pages)),
                          LAMBDA w1 : execute_nvm_command(w1, UPDI_V0_NVMCTRL_CTRLA_WRITE_PAGE)),
                     pc, "wfr3", now)
    ELSE write_pages(w, pc.address + Len(Head(pc.pages)), Tail(pc.pages), now)

(***************************************************************************)
(* Bounds of the model.                                                    *)
(***************************************************************************)
\* operations called in one session
MaxOps == 3
\* pages in the longest image written or read
MaxPages == 2
\* iterations of a polling loop without a timeout that are followed
MaxPolls == 3
\* the target response up to which a fault is injected
MaxFaultAt == 1
\* how long one poll of the NVM status takes at least, in ms
PollMs == 2500
\* how long one poll of ASI_SYS_STATUS in wait_unlocked takes at least, in ms
UnlockPollMs == 100
\* polls for which the NVM controller stays busy after a command, at most
MaxBusy == 1
\* operations of the link called in a row
MaxLinkOps == 2
\* the send or the answer up to which a fault is injected at the link
MaxLinkFaultAt == 2
\* bytes in the longest data handed to the link
MaxData == 4
\* iterations of wait_flash_ready of src/pyupdi.py that are followed
MaxLegacyPolls == 6
\* reads of ASI_SYS_STATUS for which the erase of a locked part goes on after
\* the reset is seen released, at most
MaxErase == 2
\* bytes asked of one receive, and bytes the target sends during it, at most
MaxReceive == 3
\* the target response up to which a fault is injected in a reset pulse and
\* the waits that follow it
MaxWaitFaultAt == 5
\* operations that pulse the reset called in a row
MaxWaitOps == 2
\* operations called in one session of the NVM controller
MaxNvmOps == 3
\* the target response up to which a fault is injected in a page write
MaxNvmFaultAt == 8

(***************************************************************************)
(* The session: one UpdiNvmProgrammer, its application, link and serial    *)
(* port, and the target on the wire.                                       *)
(***************************************************************************)
VARIABLES
  device,     \* UpdiNvmProgrammer.device, UpdiApplication.device
  progmode,   \* UpdiNvmProgrammer.progmode
  write_nvm,  \* UpdiApplication.write_nvm: "v0" or "v1"
  tgt,        \* the target
  rx,         \* the input buffer of the serial port
  tx,         \* the frames written to the serial port by the running operation
  rcv,        \* what each receive of the running operation returned
  eaten,      \* how many bytes each send of the running operation read back
  calls,      \* the calls of write_nvm by the running operation
  reads,      \* the addresses of the page reads by the running operation
  k,          \* responses of the target during the running operation
  now,        \* ms since the running operation was called
  pc,         \* where the running operation stands
  call,       \* the running (or last) operation and its arguments
  res,        \* what the last operation returned or raised
  prev,       \* call and outcome of the operation before
  nops,       \* operations called so far
  port        \* the handles open on the serial port, and what the running
              \* operation has done to the port

vars ==
  <<device, progmode, write_nvm, tgt, rx, tx, rcv, eaten, calls, reads, k,
    now, pc, call, res, prev, nops, port>>

NoCall ==
  [op |-> "none", address |-> 0, data |-> <<>>, size |-> 0, busy |-> 0,
   f |-> NoFault, inprog |-> FALSE, nvmprog |-> FALSE, stuck |-> FALSE,
   quiet |-> TRUE, flag |-> FALSE, off |-> FALSE, werr |-> FALSE, ee |-> FALSE]

NoRes == [err |-> "", ret |-> <<>>, val |-> 0]

NoPrev == [call |-> NoCall, res |-> NoRes, keys |-> 0, done |-> FALSE]

\* the state an operation starts from
World(c) ==
  [t |-> [tgt EXCEPT !.busyArm = c.busy, !.werrArm = c.werr, !.ee = c.ee],
   rx |-> rx, tx |-> <<>>, rcv |-> <<>>,
   eaten |-> <<>>, calls |-> <<>>, reads |-> <<>>, f |-> c.f, k |-> 0,
   err |-> "", ret |-> <<>>, val |-> 0, b |-> FALSE,
   progmode |-> progmode, write_nvm |-> write_nvm, device |-> device,
   port |-> [port EXCEPT !.log = <<>>]]

\* the state a step of the running operation continues from
Resume ==
  [t |-> tgt, rx |-> rx, tx |-> tx, rcv |-> rcv,
   eaten |-> eaten, calls |-> calls, reads |-> reads, f |-> call.f, k |-> k,
   err |-> "", ret |-> <<>>, val |-> 0, b |-> FALSE,
   progmode |-> progmode, write_nvm |-> write_nvm, device |-> device,
   port |-> port]

\* KEY frames among the frames sent
KeyCount(frames) ==
  Cardinality({i \in 1..Len(frames) :
                 Len(frames[i]) = 2 /\ frames[i][1] = UPDI_PHY_SYNC
                 /\ TgtClass(frames[i][2]) = UPDI_KEY})

\* the loops that run against a Timeout, and the loops of wait_flash_ready
\* of src/pyupdi.py, whose start is kept in pc.timeout although they read no clock
Timed(at) == at \in {"unlocked", "wfr1", "wfr2", "wfr3", "lwfr1", "lwfr2"}

\* Only differences of time.time() are ever used: the clock is read relative
\* to the start of the Timeout that is running, and is 0 where none is.
Base(o, time) == IF Timed(o.pc.at) THEN o.pc.timeout.start_time ELSE time

\* the variables after a step of an operation that ends in o at time
Commit(o, time) ==
  /\ progmode' = o.w.progmode
  /\ write_nvm' = o.w.write_nvm
  /\ tgt' = o.w.t
  /\ rx' = o.w.rx
  /\ tx' = o.w.tx
  /\ rcv' = o.w.rcv
  /\ eaten' = o.w.eaten
  /\ calls' = o.w.calls
  /\ reads' = o.w.reads
  /\ k' = o.w.k
  /\ now' = time - Base(o, time)
  /\ pc' = IF Timed(o.pc.at)
           THEN [o.pc EXCEPT !.timeout.start_time = 0, !.last = @ - Base(o, time)]
           ELSE o.pc
  /\ res' = IF o.pc.op = "idle"
            THEN [err |-> o.w.err, ret |-> o.w.ret, val |-> o.w.val] ELSE NoRes
  /\ port' = o.w.port
  /\ UNCHANGED device

\* an operation is called with c, as one of at most max: the last one
\* becomes the one before
Started(c, o, max) ==
  /\ pc.op = "idle"
  /\ nops < max
  /\ nops' = nops + 1
  /\ call' = c
  /\ prev' = [call |-> call, res |-> res, keys |-> KeyCount(tx), done |-> call.op # "none"]
  /\ Commit(o, 0)

Begin(c, o) == Started(c, o, MaxOps)

\* the running operation takes a step
Step(o, time) ==
  /\ Commit(o, time)
  /\ UNCHANGED <<call, prev, nops>>

(***************************************************************************)
(* What the environment chooses.                                           *)
(***************************************************************************)
Devices == {DeviceTiny, DeviceDx}

\* the NVM interface revision in the SIB of the part
RevOf(dev) == IF dev = DeviceDx THEN "P:2" ELSE "P:0"

\* the answer of the target that is lost during an operation, if any
SessionFaults ==
  {NoFault} \cup {[kind |-> "silent", at |-> i] : i \in 1..MaxFaultAt}

\* polls for which the NVM controller stays busy; -1: forever
BusyTimes == (0..MaxBusy) \cup {-1}

\* reads for which the erase by key goes on; -1: forever
EraseTimes == (0..MaxErase) \cup {-1}

\* an image of len bytes, none of them 0x00 or 0xFF
Image(len, seed) == [i \in 1..len |-> 1 + ((seed + i) % 254)]

ImageLens(P) ==
  {0, 1} \cup {j * P : j \in 1..MaxPages} \cup {(j - 1) * P + 1 : j \in 1..MaxPages}

ReadSizes(P) == {1} \cup {j * P : j \in 0..MaxPages}

Addresses(dev) == {dev.flash_start, dev.flash_start + dev.flash_pagesize}

WriteArgs(dev) ==
  {[address |-> dev.flash_start, len |-> len] : len \in ImageLens(dev.flash_pagesize)}
  \cup {[address |-> dev.flash_start + dev.flash_pagesize, len |-> dev.flash_pagesize]}

ReadArgs(dev) ==
  {[address |-> dev.flash_start, size |-> size] : size \in ReadSizes(dev.flash_pagesize)}
  \cup {[address |-> dev.flash_start + dev.flash_pagesize, size |-> dev.flash_pagesize]}

FuseNumbers == {1}

FuseValues == {90}

\* the arguments and the faults that can make no difference to a call that
\* is refused because the session is not in programming mode are not varied
Gated(S, dflt) == IF progmode THEN S ELSE {dflt}

\* a call, and what held when it was made: the session and the target were in
\* programming mode (inprog), the target was (nvmprog), the NVM controller was
\* busy for good (stuck), the target was waiting for an instruction and
\* nothing was left in the input buffer (quiet), the progmode flag of the
\* programmer was set (flag), the UPDI of the target was disabled (off)
NewCall(op, f) ==
  [NoCall EXCEPT !.op = op, !.f = f, !.inprog = progmode /\ tgt.nvmprog,
                 !.nvmprog = tgt.nvmprog, !.stuck = (tgt.busy = -1),
                 !.quiet = (tgt.dec = "idle" /\ rx = <<>>),
                 !.flag = progmode, !.off = tgt.off]

\* the session after the construction of UpdiNvmProgrammer for one of devs,
\* on a target that is held in reset or not as holds has it
ConstructedOn(devs, holds) ==
  /\ device \in devs
  /\ progmode = FALSE
  /\ write_nvm = "v0"
  /\ \E locked \in BOOLEAN, hold \in holds :
       tgt = [TgtNew(device, RevOf(device), locked) EXCEPT !.hold = hold]
  /\ rx = <<>> /\ tx = <<>> /\ rcv = <<>> /\ eaten = <<>>
  /\ calls = <<>> /\ reads = <<>>
  /\ k = 0 /\ now = 0
  /\ pc = Idle
  /\ call = NoCall /\ res = NoRes /\ prev = NoPrev
  /\ nops = 0
  /\ port = [open |-> <<WorkingPort>>, log |-> <<>>]

Constructed(holds) == ConstructedOn(Devices, holds)

Init == Constructed({FALSE})

(***************************************************************************)
(* The operations of UpdiNvmProgrammer.                                    *)
(***************************************************************************)
Call_get_device_info ==
  \E f \in SessionFaults :
    LET c == NewCall("get_device_info", f)
    IN Begin(c, Done(device_info(World(c))))

Call_enter_progmode ==
  \E f \in SessionFaults :
    LET c == NewCall("enter_progmode", f)
    IN Begin(c, enter_progmode(World(c)))

Call_leave_progmode ==
  \E f \in SessionFaults :
    LET c == NewCall("leave_progmode", f)
    IN Begin(c, leave_progmode(World(c)))

Call_unlock_device ==
  \E f \in IF progmode THEN {NoFault} ELSE SessionFaults,
     busy \in IF progmode \/ ~tgt.lock THEN {0} ELSE EraseTimes :
    LET c == [NewCall("unlock_device", f) EXCEPT !.busy = busy]
    IN Begin(c, unlock_device(World(c)))

Call_chip_erase ==
  \E f \in Gated(SessionFaults, NoFault), busy \in Gated(BusyTimes, 0) :
    LET c == [NewCall("chip_erase", f) EXCEPT !.busy = busy]
    IN Begin(c, chip_erase(World(c), 0))

Call_write_flash ==
  \E f \in Gated(SessionFaults, NoFault), busy \in Gated(BusyTimes, 0),
     a \in Gated(WriteArgs(device), [address |-> device.flash_start, len |-> 1]) :
    LET c == [NewCall("write_flash", f) EXCEPT !.busy = busy, !.address = a.address,
                                               !.data = Image(a.len, a.address % 7)]
    IN Begin(c, write_flash(World(c), c.address, c.data, 0))

Call_read_flash ==
  \E f \in Gated(SessionFaults, NoFault),
     a \in Gated(ReadArgs(device),
                 [address |-> device.flash_start, size |-> device.flash_pagesize]) :
    LET c == [NewCall("read_flash", f) EXCEPT !.address = a.address, !.size = a.size]
    IN Begin(c, Done(read_flash(World(c), c.address, c.size)))

Call_write_fuse ==
  \E f \in Gated(SessionFaults, NoFault), busy \in Gated(BusyTimes, 0),
     fusenum \in Gated(FuseNumbers, 0), value \in FuseValues :
    LET c == [NewCall("write_fuse", f) EXCEPT !.busy = busy, !.address = fusenum,
                                              !.data = <<value>>]
    IN Begin(c, write_fuse(World(c), fusenum, value, 0))

Call_read_fuse ==
  \E f \in Gated(SessionFaults, NoFault), fusenum \in Gated(FuseNumbers, 0) :
    LET c == [NewCall("read_fuse", f) EXCEPT !.address = fusenum]
    IN Begin(c, Done(read_fuse(World(c), fusenum)))

(***************************************************************************)
(* The polling loops, one iteration a step.                                *)
(***************************************************************************)
\* reset(apply_reset=False): while True, until RSTSYS is clear
Poll_reset ==
  /\ pc.at = "reset"
  /\ pc.polls < MaxPolls
  /\ Let(ldcs(Resume, UPDI_ASI_SYS_STATUS),
         LAMBDA w1 : IF ~Bit(w1.val, UPDI_ASI_SYS_STATUS_RSTSYS)
                     THEN Step(after_reset(w1, pc, now), now)
                     ELSE Step(Goto(w1, [pc EXCEPT !.polls = @ + 1]), now))

\* enter_progmode: while True, until NVMPROG is set
Poll_nvmprog ==
  /\ pc.at = "nvmprog"
  /\ pc.polls < MaxPolls
  /\ Let(ldcs(Resume, UPDI_ASI_SYS_STATUS),
         LAMBDA w1 : IF Bit(w1.val, UPDI_ASI_SYS_STATUS_NVMPROG)
                     THEN Step(after_nvmprog(w1), now)
                     ELSE Step(Goto(w1, [pc EXCEPT !.polls = @ + 1]), now))

\* an iteration of wait_unlocked that takes d ms
poll_unlocked(w1, d) ==
  IF ~Bit(w1.val, UPDI_ASI_SYS_STATUS_LOCKSTATUS)
  THEN Step(after_unlocked(w1, TRUE), now + d)
  ELSE Step(Goto(w1, [pc EXCEPT !.polls = @ + 1, !.last = now]), now + d)

\* wait_unlocked: while not timeout.expired()
Poll_unlocked ==
  /\ pc.at = "unlocked"
  /\ \E d \in {UnlockPollMs, UnlockPollMs + UnlockPollMs} :
       IF expired(pc.timeout, now)
       THEN Step(after_unlocked(Resume, FALSE), now)
       ELSE poll_unlocked(ldcs(Resume, UPDI_ASI_SYS_STATUS), d)

\* an iteration of wait_flash_ready that looks at the busy bits before it
\* looks at WRITE_ERROR: the fault C26 excludes
poll_flash_ready_busy_first(w1, pc1, time) ==
  IF ~Ok(w1) THEN Step(Done(w1), time)
  ELSE IF Bit(w1.val, UPDI_NVM_STATUS_EEPROM_BUSY)
          \/ Bit(w1.val, UPDI_NVM_STATUS_FLASH_BUSY)
    THEN Step(Goto(w1, pc1), time)
  ELSE IF Bit(w1.val, UPDI_NVM_STATUS_WRITE_ERROR)
    THEN Step(after_flash_ready(w1, pc1, FALSE, time), time)
  ELSE Step(after_flash_ready(w1, pc1, TRUE, time), time)

\* an iteration of wait_flash_ready that ends at time
poll_flash_ready(w1, pc1, time) ==
  IF ~Ok(w1) THEN Step(Done(w1), time)
  ELSE IF Bit(w1.val, UPDI_NVM_STATUS_WRITE_ERROR)
    THEN Step(after_flash_ready(w1, pc1, FALSE, time), time)
  ELSE IF ~Bit(w1.val, UPDI_NVM_STATUS_EEPROM_BUSY)
          /\ ~Bit(w1.val, UPDI_NVM_STATUS_FLASH_BUSY)
    THEN Step(after_flash_ready(w1, pc1, TRUE, time), time)
  ELSE Step(Goto(w1, pc1), time)

\* wait_flash_ready: while not timeout.expired()
Poll_flash_ready ==
  /\ pc.at \in {"wfr1", "wfr2", "wfr3"}
  /\ \E d \in {PollMs, PollMs + PollMs} :
       IF expired(pc.timeout, now)
       THEN Step(after_flash_ready(Resume, pc, FALSE, now), now)
       ELSE poll_flash_ready(ld(Resume, device.nvmctrl_address + UPDI_NVMCTRL_STATUS),
                             [pc EXCEPT !.polls = @ + 1, !.last = now], now + d)

Next ==
  \/ Call_get_device_info
  \/ Call_enter_progmode
  \/ Call_leave_progmode
  \/ Call_unlock_device
  \/ Call_chip_erase
  \/ Call_write_flash
  \/ Call_read_flash
  \/ Call_write_fuse
  \/ Call_read_fuse
  \/ Poll_reset
  \/ Poll_nvmprog
  \/ Poll_unlocked
  \/ Poll_flash_ready

Spec == Init /\ [][Next]_vars

(***************************************************************************)
(* The link on its own: the methods of UpdiDatalink and the data transfers *)
(* of UpdiApplication, called directly, on a wire that may lose or damage  *)
(* an answer or lose the echo of a byte.                                   *)
(***************************************************************************)
LinkFaults ==
  {NoFault} \cup {[kind |-> kd, at |-> i] :
                    kd \in {"silent", "garble", "short", "echo"}, i \in 1..MaxLinkFaultAt}

LinkData == {Image(n, 0) : n \in 0..MaxData}

\* the data handed to write_data and to write_data_words: the short ones, and
\* the longest batch that one REPEAT takes and the first that is too long
ByteBatches ==
  LinkData \cup {Image(n, 0) : n \in {UPDI_MAX_REPEAT_SIZE, UPDI_MAX_REPEAT_SIZE + 1}}

WordBatches ==
  LinkData \cup {Image(n, 0) : n \in {Shl(UPDI_MAX_REPEAT_SIZE, 1),
                                      Shl(UPDI_MAX_REPEAT_SIZE, 1) + 2}}

LinkKeys == {UPDI_KEY_NVM, UPDI_KEY_CHIPERASE, <<1, 2, 3, 4, 5, 6, 7, 8>>}

LinkRepeats == {1, 2, UPDI_MAX_REPEAT_SIZE}

LinkCall(op, f, address, data, size) ==
  [NewCall(op, f) EXCEPT !.address = address, !.data = data, !.size = size]

InitLink == Init /\ device = DeviceTiny /\ ~tgt.lock

BeginLink(c, w) == Started(c, Done(w), MaxLinkOps)

\* the answers lost while a link is constructed: one of them, or all of them
\* from one on
ConstructFaults ==
  LinkFaults \cup {[kind |-> "mute", at |-> i] : i \in 1..MaxLinkFaultAt}

\* a link is constructed anew on the port, the target as it was left; the
\* link there was is gone, and its port closed with it
Link_UpdiDatalink ==
  \E f \in ConstructFaults :
    BeginLink(LinkCall("UpdiDatalink", f, 0, <<>>, 0),
              UpdiDatalink([World(LinkCall("UpdiDatalink", f, 0, <<>>, 0))
                              EXCEPT !.port.open = <<>>]))

Link_ldcs ==
  \E f \in LinkFaults, address \in {UPDI_ASI_SYS_STATUS, UPDI_ASI_KEY_STATUS} :
    BeginLink(LinkCall("ldcs", f, address, <<>>, 0),
              ldcs(World(LinkCall("ldcs", f, address, <<>>, 0)), address))

Link_stcs ==
  \E f \in LinkFaults :
    BeginLink(LinkCall("stcs", f, UPDI_CS_CTRLA, <<>>, 0),
              stcs(World(LinkCall("stcs", f, UPDI_CS_CTRLA, <<>>, 0)), UPDI_CS_CTRLA,
                   Shl(1, UPDI_CTRLA_IBDLY_BIT)))

Link_ld ==
  \E f \in LinkFaults :
    BeginLink(LinkCall("ld", f, device.flash_start, <<>>, 0),
              ld(World(LinkCall("ld", f, device.flash_start, <<>>, 0)), device.flash_start))

Link_st ==
  \E f \in LinkFaults :
    BeginLink(LinkCall("st", f, device.flash_start, <<90>>, 0),
              st(World(LinkCall("st", f, device.flash_start, <<90>>, 0)),
                 device.flash_start, 90))

Link_st16 ==
  \E f \in LinkFaults :
    BeginLink(LinkCall("st16", f, device.flash_start, <<90, 165>>, 0),
              st16(World(LinkCall("st16", f, device.flash_start, <<90, 165>>, 0)),
                   device.flash_start, 90 + Shl(165, 8)))

\* the addresses st_ptr is called with: the ends of the 16-bit range, the two
\* sides of a byte boundary, and the start of the flash
LinkPointers == {0, 255, 256, device.flash_start, 65535}

Link_st_ptr ==
  \E f \in LinkFaults, address \in LinkPointers :
    BeginLink(LinkCall("st_ptr", f, address, <<>>, 0),
              st_ptr(World(LinkCall("st_ptr", f, address, <<>>, 0)), address))

Link_st_ptr_inc ==
  \E f \in LinkFaults, data \in LinkData :
    BeginLink(LinkCall("st_ptr_inc", f, 0, data, 0),
              st_ptr_inc(World(LinkCall("st_ptr_inc", f, 0, data, 0)), data))

Link_st_ptr_inc16 ==
  \E f \in LinkFaults, data \in LinkData :
    BeginLink(LinkCall("st_ptr_inc16", f, 0, data, 0),
              st_ptr_inc16(World(LinkCall("st_ptr_inc16", f, 0, data, 0)), data))

Link_key ==
  \E f \in LinkFaults, K \in LinkKeys :
    BeginLink(LinkCall("key", f, 0, K, UPDI_KEY_64),
              key(World(LinkCall("key", f, 0, K, UPDI_KEY_64)), UPDI_KEY_64, K))

Link_repeat ==
  \E f \in LinkFaults, n \in LinkRepeats :
    BeginLink(LinkCall("repeat", f, 0, <<>>, n),
              repeat(World(LinkCall("repeat", f, 0, <<>>, n)), n))

Link_write_data ==
  \E f \in LinkFaults, data \in ByteBatches :
    BeginLink(LinkCall("write_data", f, device.flash_start, data, 0),
              write_data(World(LinkCall("write_data", f, device.flash_start, data, 0)),
                         device.flash_start, data))

Link_write_data_words ==
  \E f \in LinkFaults, data \in WordBatches :
    BeginLink(LinkCall("write_data_words", f, device.flash_start, data, 0),
              write_data_words(World(LinkCall("write_data_words", f, device.flash_start,
                                              data, 0)),
                               device.flash_start, data))

Link_read_data ==
  \E f \in LinkFaults, size \in 0..MaxData :
    BeginLink(LinkCall("read_data", f, device.flash_start, <<>>, size),
              read_data(World(LinkCall("read_data", f, device.flash_start, <<>>, size)),
                        device.flash_start, size))

Link_read_data_words ==
  \E f \in LinkFaults, words \in 0..(MaxData \div 2) :
    BeginLink(LinkCall("read_data_words", f, device.flash_start, <<>>, words),
              read_data_words(World(LinkCall("read_data_words", f, device.flash_start,
                                             <<>>, words)),
                              device.flash_start, words))

NextLink ==
  \/ Link_UpdiDatalink
  \/ Link_ldcs
  \/ Link_stcs
  \/ Link_ld
  \/ Link_st
  \/ Link_st16
  \/ Link_st_ptr
  \/ Link_st_ptr_inc
  \/ Link_st_ptr_inc16
  \/ Link_key
  \/ Link_repeat
  \/ Link_write_data
  \/ Link_write_data_words
  \/ Link_read_data
  \/ Link_read_data_words

SpecLink == InitLink /\ [][NextLink]_vars

(***************************************************************************)
(* The stand-alone script src/pyupdi.py, the older form of the same stack. *)
(* Its link and its physical layer put the same frames on the wire as      *)
(* src/updi/link.py and src/updi/physical.py and read the same answers, so *)
(* ldcs, stcs, ld, st and key above stand for them; its application layer  *)
(* differs and is given here.                                              *)
(***************************************************************************)
\* UpdiApplication.wait_unlocked: w.b is what it returns
RECURSIVE pyupdi_wait_unlocked(_, _)
pyupdi_wait_unlocked(w, timeout_ms) ==
  Let(ldcs(w, UPDI_ASI_SYS_STATUS),
      LAMBDA w1 : IF ~Bit(w1.val, UPDI_ASI_SYS_STATUS_LOCKSTATUS) THEN [w1 EXCEPT !.b = TRUE]
                  ELSE IF timeout_ms = 0 THEN [w1 EXCEPT !.b = FALSE]
                  ELSE pyupdi_wait_unlocked(w1, timeout_ms - 1))

\* UpdiApplication.reset(True) and reset(False)
pyupdi_reset(w) ==
  stcs(stcs(w, UPDI_ASI_RESET_REQ, UPDI_RESET_REQ_VALUE), UPDI_ASI_RESET_REQ, 0)

\* UpdiApplication.enter_progmode behind the key, and the flag that
\* UpdiNvmProgrammer.enter_progmode sets when it returns True
pyupdi_after_key(w) ==
  Let(pyupdi_wait_unlocked(pyupdi_reset(w), 10),
      LAMBDA w3 :
        IF ~w3.b
        THEN Raise(w3, "Failed to enter NVM programming mode: device is locked")
        ELSE Let(in_prog_mode(w3),
                 LAMBDA w4 : IF ~w4.b THEN Raise(w4, "Failed to enter NVM programming mode")
                             ELSE [w4 EXCEPT !.progmode = TRUE]))

pyupdi_enter_progmode(w) ==
  Let(in_prog_mode(w),
      LAMBDA w1 :
        IF w1.b THEN [w1 EXCEPT !.progmode = TRUE]
        ELSE Let(ldcs(key(w1, UPDI_KEY_64, UPDI_KEY_NVM), UPDI_ASI_KEY_STATUS),
                 LAMBDA w2 : IF ~Bit(w2.val, UPDI_ASI_KEY_STATUS_NVMPROG)
                             THEN Raise(w2, "Key not accepted")
                             ELSE pyupdi_after_key(w2)))

\* UpdiNvmProgrammer.chip_erase and UpdiApplication.chip_erase up to the
\* loop of the first wait_flash_ready
pyupdi_chip_erase(w, time) ==
  IF ~w.progmode THEN Done(Raise(w, "Enter progmode first!"))
  ELSE Goto(w, At("chip_erase", "lwfr1", 0, <<>>, Timeout(0, time)))

\* UpdiApplication.chip_erase behind a wait_flash_ready
pyupdi_after_flash_ready(w, pc1, ready, time) ==
  IF pc1.at = "lwfr1"
  THEN IF ~ready THEN Done(Raise(w, "Timeout waiting for flash ready before erase "))
       ELSE Let(execute_nvm_command(w, UPDI_V0_NVMCTRL_CTRLA_CHIP_ERASE),
                LAMBDA w1 : IF ~Ok(w1) THEN Done(w1)
                            ELSE Goto(w1, [pc1 EXCEPT !.at = "lwfr2", !.polls = 0,
                                                     !.timeout = Timeout(0, time)]))
  ELSE IF ~ready THEN Done(Raise(w, "Timeout waiting for flash ready after erase"))
  ELSE Done(w)

\* an iteration of wait_flash_ready of src/pyupdi.py that ends at time
pyupdi_poll_flash_ready(w1, pc1, time) ==
  IF ~Ok(w1) THEN Step(Done(w1), time)
  ELSE IF Bit(w1.val, UPDI_NVM_STATUS_WRITE_ERROR)
    THEN Step(pyupdi_after_flash_ready(w1, pc1, FALSE, time), time)
  ELSE IF ~Bit(w1.val, UPDI_NVM_STATUS_EEPROM_BUSY)
          /\ ~Bit(w1.val, UPDI_NVM_STATUS_FLASH_BUSY)
    THEN Step(pyupdi_after_flash_ready(w1, pc1, TRUE, time), time)
  ELSE Step(Goto(w1, pc1), time)

Legacy_enter_progmode ==
  \E f \in SessionFaults :
    LET c == NewCall("enter_progmode", f)
    IN Begin(c, Done(pyupdi_enter_progmode(World(c))))

Legacy_chip_erase ==
  \E f \in Gated(SessionFaults, NoFault), busy \in Gated(BusyTimes, 0) :
    LET c == [NewCall("chip_erase", f) EXCEPT !.busy = busy]
    IN Begin(c, pyupdi_chip_erase(World(c), 0))

\* wait_flash_ready of src/pyupdi.py: while True
Legacy_wait_flash_ready ==
  /\ pc.at \in {"lwfr1", "lwfr2"}
  /\ pc.polls < MaxLegacyPolls
  /\ \E d \in {PollMs, PollMs + PollMs} :
       pyupdi_poll_flash_ready(ld(Resume, device.nvmctrl_address + UPDI_NVMCTRL_STATUS),
                               [pc EXCEPT !.polls = @ + 1, !.last = now], now + d)

InitLegacy == Init /\ device = DeviceTiny

NextLegacy ==
  \/ Legacy_enter_progmode
  \/ Legacy_chip_erase
  \/ Legacy_wait_flash_ready

SpecLegacy == InitLegacy /\ [][NextLegacy]_vars

(***************************************************************************)
(* The waits of the reset: the operations that pulse the reset, on a       *)
(* target that leaves the reset when it is released or is held in it.      *)
(***************************************************************************)
InitWaits == Constructed(BOOLEAN)

\* what the wire does to the answers of the target during one of these
\* operations: it loses one of them, or all of them from one on (the target
\* or the wire has gone dead)
WaitFaults ==
  {NoFault} \cup {[kind |-> kd, at |-> i] :
                    kd \in {"silent", "mute"}, i \in 1..MaxWaitFaultAt}

Waits_enter_progmode ==
  \E f \in WaitFaults :
    LET c == NewCall("enter_progmode", f)
    IN Started(c, enter_progmode(World(c)), MaxWaitOps)

Waits_leave_progmode ==
  \E f \in WaitFaults :
    LET c == NewCall("leave_progmode", f)
    IN Started(c, leave_progmode(World(c)), MaxWaitOps)

Waits_unlock_device ==
  \E f \in IF progmode THEN {NoFault} ELSE WaitFaults,
     busy \in IF progmode \/ ~tgt.lock THEN {0} ELSE EraseTimes :
    LET c == [NewCall("unlock_device", f) EXCEPT !.busy = busy]
    IN Started(c, unlock_device(World(c)), MaxWaitOps)

NextWaits ==
  \/ Waits_enter_progmode
  \/ Waits_leave_progmode
  \/ Waits_unlock_device
  \/ Poll_reset
  \/ Poll_nvmprog
  \/ Poll_unlocked

SpecWaits == InitWaits /\ [][NextWaits]_vars

(***************************************************************************)
(* The NVM controller: the operations that give it commands, on an         *)
(* attiny202 whose controller may stay busy with the flash or the EEPROM   *)
(* and may end a command in a write error, and on a wire that may lose an  *)
(* answer in the middle of a page.                                         *)
(***************************************************************************)
\* the answer of the target that is lost during a page write, if any
NvmFaults ==
  {NoFault} \cup {[kind |-> "silent", at |-> i] : i \in 1..MaxNvmFaultAt}

\* what the NVM controller does during an operation: how long it stays busy
\* after a command, with which of the busy bits, and whether a command that
\* writes ends in a write error
NvmModes ==
  {[busy |-> b, ee |-> e, werr |-> r] :
     b \in BusyTimes \ {0}, e \in BOOLEAN, r \in BOOLEAN}
  \cup {[busy |-> 0, ee |-> FALSE, werr |-> r] : r \in BOOLEAN}

NvmQuiet == [busy |-> 0, ee |-> FALSE, werr |-> FALSE]

\* the images written: less than a page and more than a page, on a wire
\* that loses no answer or on a controller that is never busy and has no
\* write error, and one byte more than the flash holds, on both
NvmWrites(dev) ==
  {[len |-> len, f |-> NoFault, m |-> m] :
     len \in {1, dev.flash_pagesize + 1}, m \in NvmModes}
  \cup {[len |-> 1, f |-> f, m |-> NvmQuiet] : f \in NvmFaults}
  \cup {[len |-> dev.flash_size + 1, f |-> NoFault, m |-> NvmQuiet]}

NvmCall(op, f, m) ==
  [NewCall(op, f) EXCEPT !.busy = m.busy, !.ee = m.ee, !.werr = m.werr]

BeginNvm(c, o) == Started(c, o, MaxNvmOps)

InitNvm == ConstructedOn({DeviceTiny2K}, {FALSE}) /\ ~tgt.lock

Nvm_enter_progmode ==
  LET c == NewCall("enter_progmode", NoFault)
  IN BeginNvm(c, enter_progmode(World(c)))

Nvm_chip_erase ==
  \E m \in Gated(NvmModes, NvmQuiet) :
    LET c == NvmCall("chip_erase", NoFault, m)
    IN BeginNvm(c, chip_erase(World(c), 0))

Nvm_write_flash ==
  \E a \in Gated(NvmWrites(device), [len |-> 1, f |-> NoFault, m |-> NvmQuiet]) :
    LET c == [NvmCall("write_flash", a.f, a.m) EXCEPT !.address = device.flash_start,
                                                     !.data = Image(a.len, 0)]
    IN BeginNvm(c, write_flash(World(c), c.address, c.data, 0))

Nvm_write_fuse ==
  \E m \in Gated(NvmModes, NvmQuiet), fusenum \in Gated(FuseNumbers, 0),
     value \in FuseValues :
    LET c == [NvmCall("write_fuse", NoFault, m) EXCEPT !.address = fusenum,
                                                      !.data = <<value>>]
    IN BeginNvm(c, write_fuse(World(c), fusenum, value, 0))

\* read_flash of one page or of two, on a wire that loses an answer of the
\* target or the last byte of one
Nvm_read_flash ==
  \E f \in Gated({NoFault} \cup {[kind |-> kd, at |-> i] :
                                   kd \in {"silent", "short"}, i \in 1..MaxNvmFaultAt},
                 NoFault),
     pages \in Gated(1..MaxPages, 1) :
    LET c == [NewCall("read_flash", f) EXCEPT !.address = device.flash_start,
                                              !.size = pages * device.flash_pagesize]
    IN BeginNvm(c, Done(read_flash(World(c), c.address, c.size)))

NextNvm ==
  \/ Nvm_enter_progmode
  \/ Nvm_chip_erase
  \/ Nvm_write_flash
  \/ Nvm_write_fuse
  \/ Nvm_read_flash
  \/ Poll_reset
  \/ Poll_nvmprog
  \/ Poll_flash_ready

SpecNvm == InitNvm /\ [][NextNvm]_vars

(***************************************************************************)
(* PHY.receive on its own, one iteration of its loop a step: at every read *)
(* the next byte of the target has arrived in time, or the read times out. *)
(***************************************************************************)
\* the sizes asked for, and what the target sends while the receive runs
ReceiveSizes == 0..MaxReceive

ReceiveStreams == UNION {[1..n -> {0, UPDI_PHY_ACK}] : n \in 0..MaxReceive}

\* receive(size) is called: response = bytearray(), timeout = 1
Receive_call ==
  \E size \in ReceiveSizes, stream \in ReceiveStreams :
    /\ pc.op = "idle"
    /\ nops < MaxLinkOps
    /\ nops' = nops + 1
    /\ call' = LinkCall("receive", NoFault, 0, rx \o stream, size)
    /\ prev' = [call |-> call, res |-> res, keys |-> 0, done |-> call.op # "none"]
    /\ rx' = rx \o stream
    /\ pc' = [op |-> "receive", at |-> "loop", l |-> receive_begin(size), log |-> <<>>]
    /\ res' = NoRes
    /\ UNCHANGED <<device, progmode, write_nvm, tgt, tx, rcv, eaten, calls, reads, k, now,
                   port>>

\* one iteration of the loop: self.ser.read() returns the next byte, or
\* nothing when none has arrived within the timeout of the port
Receive_read ==
  /\ pc.op = "receive"
  /\ receive_goes_on(pc.l)
  /\ \E n \in {0, 1} :
       /\ n <= Len(rx)
       /\ pc' = [pc EXCEPT !.l = receive_iteration(pc.l, Take(rx, n)),
                           !.log = Append(@, Take(rx, n))]
       /\ rx' = Drop(rx, n)
  /\ UNCHANGED <<device, progmode, write_nvm, tgt, tx, rcv, eaten, calls, reads, k,
                 now, call, res, prev, nops, port>>

\* return response
Receive_return ==
  /\ pc.op = "receive"
  /\ ~receive_goes_on(pc.l)
  /\ pc' = [pc EXCEPT !.op = "idle"]
  /\ res' = [NoRes EXCEPT !.ret = pc.l.response]
  /\ rcv' = Append(rcv, pc.l.response)
  /\ UNCHANGED <<device, progmode, write_nvm, tgt, rx, tx, eaten, calls, reads, k,
                 now, call, prev, nops, port>>

NextReceive ==
  \/ Receive_call
  \/ Receive_read
  \/ Receive_return

SpecReceive == InitLink /\ [][NextReceive]_vars

(***************************************************************************)
(* The properties.                                                         *)
(***************************************************************************)
\* the last operation called has returned or raised
Finished == pc.op = "idle" /\ call.op # "none"

\* c is a write_flash of a whole number of pages at the start of the flash,
\* called in programming mode on a target that answers and gets ready
WholePages(c) ==
  /\ c.op = "write_flash"
  /\ c.inprog /\ ~c.stuck
  /\ c.f = NoFault /\ c.busy # -1
  /\ c.address = device.flash_start
  /\ Len(c.data) % device.flash_pagesize = 0
  /\ Len(c.data) <= device.flash_size

\* C1 (round trip): a write_flash(flash_start, B) of a whole number of pages,
\* in programming mode on a target that answers and stores what is written,
\* returns without an error, and the read_flash(flash_start, len(B)) that
\* follows it returns exactly B.
C1_RoundTrip ==
  /\ (Finished /\ WholePages(call)) => res.err = ""
  /\ (/\ Finished /\ call.op = "read_flash" /\ call.f = NoFault
      /\ prev.done /\ WholePages(prev.call) /\ prev.res.err = ""
      /\ call.address = device.flash_start
      /\ call.size = Len(prev.call.data))
     => (res.err = "" /\ res.ret = prev.call.data)

\* the round trip on the parts with 16-bit flash addresses, where
\* get_device_info has not selected write_nvm_v1
C1_RoundTripTiny == (device = DeviceTiny) => C1_RoundTrip

\* pages that hold len bytes
PagesFor(len) == (len + device.flash_pagesize - 1) \div device.flash_pagesize

\* C2 (page alignment): write_flash(addr, data) calls write_nvm once per page,
\* page i (from 0) with exactly flash_pagesize bytes at addr + i * pagesize, in
\* the order of i, never more than ceil(L / pagesize) times, and exactly that
\* often when it returns without an error.
C2_PageAlignment ==
  call.op = "write_flash" =>
    /\ Len(calls) <= PagesFor(Len(call.data))
    /\ \A i \in 1..Len(calls) :
         /\ Len(calls[i].page) = device.flash_pagesize
         /\ calls[i].address = call.address + (i - 1) * device.flash_pagesize
    /\ (Finished /\ res.err = "") => Len(calls) = PagesFor(Len(call.data))

\* a write_flash of one page and one byte has returned after two page writes
C2_Witness ==
  /\ Finished /\ call.op = "write_flash" /\ res.err = ""
  /\ Len(call.data) = device.flash_pagesize + 1
  /\ Len(calls) = 2

\* C3 (pad byte): every byte of a page handed to write_nvm that lies behind
\* the data given to write_flash is 0xFF.
C3_PadByte ==
  call.op = "write_flash" =>
    \A i \in 1..Len(calls) : \A j \in 1..Len(calls[i].page) :
      (i - 1) * device.flash_pagesize + j > Len(call.data)
        => calls[i].page[j] = 255

\* the call is an enter_progmode that directly follows an enter_progmode
\* which found the target unlocked and outside programming mode, and which
\* returned; the target answers in both
SecondEnter ==
  /\ call.op = "enter_progmode" /\ call.f = NoFault
  /\ prev.done /\ prev.call.op = "enter_progmode" /\ prev.call.f = NoFault
  /\ ~prev.call.nvmprog /\ ~tgt.lock
  /\ prev.res.err = ""

\* C9 (idempotence of enter_progmode): of two enter_progmode in succession
\* on an unlocked target that answers, the first has sent the KEY instruction
\* once and the second sends none.
C9_KeyOnce == SecondEnter => (prev.keys = 1 /\ KeyCount(tx) = 0)

\* the second enter_progmode has read NVMPROG and gone on to the reset
C9_Witness == SecondEnter /\ Len(tx) >= 3 /\ pc.op = "enter_progmode"

\* C4 (echo conservation): every send of the running operation has read
\* back as many bytes as it wrote by the time it returns.
C4_EchoConservation ==
  /\ Len(eaten) = Len(tx)
  /\ \A i \in 1..Len(eaten) : eaten[i] = Len(tx[i])

\* the single ACK
Ack == <<64>>

\* C5 (ACK discipline of st and st16): the header 55 44 (55 45 for st16)
\* with the address is sent and one answer read; the data is sent, and a
\* second answer read, only if the first answer was the ACK 0x40; the store
\* succeeds exactly if both answers were the ACK.
C5_DirectStoreAcks ==
  call.op \in {"st", "st16"} =>
    /\ Len(tx) = Len(rcv) /\ Len(tx) \in {1, 2}
    /\ tx[1] = <<85, IF call.op = "st" THEN 68 ELSE 69,
                 call.address % 256, call.address \div 256>>
    /\ (Len(tx) = 2) = (rcv[1] = Ack)
    /\ (Len(tx) = 2) => tx[2] = call.data
    /\ (res.err = "") = (rcv = <<Ack, Ack>>)

\* a st whose first answer was not the ACK has failed
C5_Witness == call.op = "st" /\ Len(rcv) = 1 /\ rcv[1] # Ack /\ res.err # ""

\* the chunks st_ptr_inc (size 1) and st_ptr_inc16 (size 2) send of data, the
\* first one behind SYNC and the opcode
Chunks(data, size) ==
  [i \in 1..(Len(data) \div size) |->
     (IF i = 1 THEN <<85, IF size = 1 THEN 100 ELSE 101>> ELSE <<>>)
     \o SubSeq(data, (i - 1) * size + 1, i * size)]

BatchedStoreAcks(size) ==
  /\ Len(tx) = Len(rcv) /\ Len(tx) >= 1
  /\ Len(tx) <= Len(call.data) \div size
  /\ \A i \in 1..Len(tx) : tx[i] = Chunks(call.data, size)[i]
  /\ \A i \in 1..(Len(rcv) - 1) : rcv[i] = Ack
  /\ (res.err = "") = (Len(rcv) = Len(call.data) \div size /\ rcv[Len(rcv)] = Ack)

\* C6 (ACK discipline of st_ptr_inc and st_ptr_inc16): the chunks of data
\* are sent in order, one answer is read after each, a chunk is sent only if
\* every answer before it was the ACK 0x40, and the store succeeds exactly if
\* every chunk was sent and answered by the ACK.
C6_BatchedStoreAcks ==
  /\ (call.op = "st_ptr_inc" /\ Len(call.data) >= 1) => BatchedStoreAcks(1)
  /\ (call.op = "st_ptr_inc16" /\ Len(call.data) >= 2 /\ Len(call.data) % 2 = 0)
       => BatchedStoreAcks(2)

\* a st_ptr_inc of four bytes has stopped at the second answer
C6_Witness ==
  /\ call.op = "st_ptr_inc" /\ Len(call.data) = 4
  /\ Len(rcv) = 2 /\ rcv[2] # Ack /\ res.err # ""

\* C7 (key byte order): key(UPDI_KEY_64, K) sends 55 E0 and then
\* K[7], ..., K[0]; for "NVMProg " these are 20 67 6F 72 50 4D 56 4E.
C7_KeyByteOrder ==
  call.op = "key" =>
    /\ Len(tx) = 2
    /\ tx[1] = <<85, 224>>
    /\ Len(tx[2]) = 8
    /\ \A i \in 0..7 : tx[2][i + 1] = call.data[(7 - i) + 1]
    /\ call.data = <<78, 86, 77, 80, 114, 111, 103, 32>>
         => tx[2] = <<32, 103, 111, 114, 80, 77, 86, 78>>

\* the key "NVMProg " has been sent
C7_Witness ==
  call.op = "key" /\ call.data = <<78, 86, 77, 80, 114, 111, 103, 32>> /\ Len(tx) = 2

IsRepeat(frame) == Len(frame) = 4 /\ frame[1] = 85 /\ frame[2] = 161

\* the chunks the operation is to transfer, and their size
RepeatChunks ==
  IF call.op = "write_data" THEN Len(call.data)
  ELSE IF call.op = "write_data_words" THEN Len(call.data) \div 2
  ELSE call.size

RepeatChunkSize == IF call.op \in {"write_data_words", "read_data_words"} THEN 2 ELSE 1

\* the frame behind the REPEAT at i is the LD or ST with pointer
\* post-increment, and with a target that answers, and that was waiting
\* for an instruction, it moves n chunks: the
\* stores send n chunks, the loads return n chunks, and the pointer of the
\* target has advanced by n chunks
RepeatedTransfer(i, n) ==
  /\ tx[i] = <<85, 161, (n - 1) % 256, (n - 1) \div 256>>
  /\ i < Len(tx)
  /\ Len(tx[i + 1]) >= 2 /\ tx[i + 1][1] = 85
  /\ tx[i + 1][2] = (IF call.op \in {"write_data", "write_data_words"} THEN 96 ELSE 32)
                    + 4 + (RepeatChunkSize - 1)
  /\ (call.f = NoFault /\ call.quiet) =>
       /\ res.err = ""
       /\ tgt.ptr = call.address + n * RepeatChunkSize
       /\ tgt.rep = 0
       /\ IF call.op \in {"write_data", "write_data_words"}
          THEN Len(tx) - i = n /\ Flatten(SubSeq(tx, i + 1, Len(tx)))
                                  = <<85, tx[i + 1][2]>> \o call.data
          ELSE Len(rcv[Len(rcv)]) = n * RepeatChunkSize

\* C8 (repeat arithmetic): repeat(n) with n in 1..255 sends 55 A1 and n - 1
\* as two bytes, low byte first; in write_data, write_data_words, read_data
\* and read_data_words a REPEAT is followed at once by the LD or ST with
\* pointer post-increment, which transfers n chunks.
C8_RepeatArithmetic ==
  /\ (call.op = "repeat" /\ call.size \in 1..255)
       => tx = << <<85, 161, call.size - 1, 0>> >>
  /\ (/\ call.op \in {"write_data", "write_data_words", "read_data", "read_data_words"}
      /\ RepeatChunks \in 1..255
      /\ call.op = "write_data_words" => Len(call.data) % 2 = 0)
       => \A i \in 1..Len(tx) : IsRepeat(tx[i]) => RepeatedTransfer(i, RepeatChunks)

\* write_data_words has stored two words behind a REPEAT
C8_Witness ==
  /\ call.op = "write_data_words" /\ Len(call.data) = 4
  /\ call.f = NoFault /\ call.quiet
  /\ Len(tx) = 4 /\ IsRepeat(tx[2]) /\ res.err = ""

WaitsFlashReady == pc.at \in {"wfr1", "wfr2", "wfr3", "lwfr1", "lwfr2"}

\* C10 (timeouts are honoured): no iteration of wait_flash_ready starts more
\* than 10 s after the wait began, so that with polls of PollMs or more it
\* ends within 10000 / PollMs + 1 iterations; and a chip_erase whose command
\* leaves the NVM controller busy for good is told so by the wait, and raises.
C10_TimeoutsHonoured ==
  /\ (WaitsFlashReady /\ pc.polls > 0) =>
       (pc.last <= 10000 /\ pc.polls <= (10000 \div PollMs) + 1)
  /\ (Finished /\ call.op = "chip_erase" /\ call.inprog
      /\ call.f = NoFault /\ call.busy = -1)
       => res.err = "Timeout waiting for flash ready"

\* the loop at which the running operation stands goes on after w1, the
\* outcome of reading ASI_SYS_STATUS in it
Continues(w1) ==
  IF pc.at = "reset" THEN Bit(w1.val, UPDI_ASI_SYS_STATUS_RSTSYS)
  ELSE ~Bit(w1.val, UPDI_ASI_SYS_STATUS_NVMPROG)

\* The running operation stands at a loop that reads no clock, and the
\* iteration to come does not end the loop and leaves the target, the wire
\* and the fault to come as they are: the same iteration follows, for ever.
Recurrent ==
  /\ pc.at \in {"reset", "nvmprog"}
  /\ k >= call.f.at
  /\ Let(ldcs(Resume, UPDI_ASI_SYS_STATUS),
         LAMBDA w1 : Continues(w1) /\ w1.t = tgt /\ w1.rx = rx)

\* C11 (termination): enter_progmode returns or raises whatever the target
\* does, also when the target never sets NVMPROG after the reset pulse and
\* when it never clears RSTSYS after the release: it never stands at a wait
\* that neither ends nor changes anything a later iteration could end on.
C11_EnterProgmodeEnds == ~(pc.op = "enter_progmode" /\ Recurrent)

\* C12 (error handling): enter_progmode on a target whose LOCKSTATUS stays
\* set after the reset pulse leaves the progmode flag false, does not return
\* without an error, and does not wait for ever.
C12_LockedDeviceFails ==
  (call.op = "enter_progmode" /\ tgt.lock /\ ~tgt.hold) =>
    /\ ~progmode
    /\ Finished => res.err # ""
    /\ ~Recurrent

\* what init and check put on the wire: 55 C3 08, 55 C2 80, 55 80
InitCheck == << <<85, 195, 8>>, <<85, 194, 128>>, <<85, 128>> >>

DoubleBreak == <<0, 0>>

\* the value that the i-th ldcs of the running operation returned
Read(i) == IF Len(rcv[i]) = 1 THEN rcv[i][1] ELSE 0

\* C13 (link initialisation with one recovery): after the break of the
\* handshake the construction of the data link sends 55 C3 08, 55 C2 80 and
\* 55 80.  If STATUSA read non-zero nothing more is sent and the link stands.
\* If it read zero, one double break is sent and the three frames again, and
\* the construction fails exactly if STATUSA read zero again.  Never is more
\* than one double break sent.
C13_LinkInit ==
  call.op = "UpdiDatalink" =>
    /\ SubSeq(tx, 1, 4) = << <<UPDI_BREAK>> >> \o InitCheck
    /\ Cardinality({i \in 1..Len(tx) : tx[i] = DoubleBreak}) <= 1
    /\ IF Read(1) # 0
       THEN tx = << <<UPDI_BREAK>> >> \o InitCheck /\ Len(rcv) = 1 /\ res.err = ""
       ELSE /\ tx = << <<UPDI_BREAK>> >> \o InitCheck \o <<DoubleBreak>> \o InitCheck
            /\ Len(rcv) = 2
            /\ res.err = (IF Read(2) = 0 THEN "UPDI initialisation failed" ELSE "")

\* a link that stands after the double break
C13_Witness == call.op = "UpdiDatalink" /\ Len(tx) = 8 /\ Read(1) = 0 /\ res.err = ""

\* LDCS of ASI_KEY_STATUS and of ASI_SYS_STATUS, and the KEY instruction
LdcsKeyStatus == <<85, 135>>

LdcsSysStatus == <<85, 139>>

KeyHeader == <<85, 224>>

\* what unlock puts on the wire up to the release of the reset
UnlockFrames ==
  << KeyHeader, Reversed(UPDI_KEY_CHIPERASE), LdcsKeyStatus,
     LdcsSysStatus, KeyHeader, Reversed(UPDI_KEY_NVM), LdcsKeyStatus,
     <<85, 200, 89>>, LdcsSysStatus, <<85, 200, 0>> >>

\* unlock_device has been called with the progmode flag false
Unlocking == call.op = "unlock_device" /\ ~call.flag

\* C14 (unlock sequence): unlock sends KEY NVMErase and reads KEY_STATUS; it
\* fails with nothing more sent, so with no write to RESET_REQ, if CHIPERASE is
\* not set; else it enters the NVMProg key, writes 0x59 and 0x00 to RESET_REQ,
\* and from then on only reads SYS_STATUS; no read of wait_unlocked starts
\* later than 200 ms after the wait began; it returns only after a read with
\* LOCKSTATUS clear and fails if the deadline expires with LOCKSTATUS set.
C14_UnlockSequence ==
  Unlocking =>
    /\ Len(tx) >= 3
    /\ \A i \in 1..Len(tx) :
         tx[i] = IF i <= Len(UnlockFrames) THEN UnlockFrames[i] ELSE LdcsSysStatus
    /\ ~Bit(Read(1), UPDI_ASI_KEY_STATUS_CHIPERASE) =>
         Len(tx) = 3 /\ res.err = "Key not accepted"
    /\ pc.at = "unlocked" =>
         /\ pc.last <= 200
         /\ pc.polls > 0 => Bit(Read(Len(rcv)), UPDI_ASI_SYS_STATUS_LOCKSTATUS)
    /\ (Finished /\ Len(tx) > Len(UnlockFrames)) =>
         IF Bit(Read(Len(rcv)), UPDI_ASI_SYS_STATUS_LOCKSTATUS)
         THEN res.err = "Failed to chip erase using key" /\ ~progmode
         ELSE res.err = "" /\ progmode

\* the variables of the programmer and the target that an operation can change
Session ==
  <<device, progmode, write_nvm,
    [tgt EXCEPT !.busyArm = 0, !.werrArm = FALSE, !.ee = FALSE], rx>>

\* C15 (unlock_device): called with the progmode flag true, unlock_device
\* returns with nothing put on the wire and with the programmer, the port and
\* the target as they were; called with the flag false it runs unlock, which
\* starts with the NVMErase key, and the flag is true afterwards exactly if
\* unlock has returned without an error.
C15_UnlockDevice ==
  [][ /\ (nops' = nops + 1 /\ call'.op = "unlock_device" /\ progmode) =>
           /\ pc'.op = "idle" /\ res'.err = ""
           /\ tx' = <<>> /\ Session' = Session
      /\ (call'.op = "unlock_device" /\ ~call'.flag) =>
           /\ Len(tx') >= 2 /\ tx'[2] = Reversed(UPDI_KEY_CHIPERASE)
           /\ progmode' = (pc'.op = "idle" /\ res'.err = "") ]_vars

\* an unlock_device that has unlocked and set the flag, and the next one,
\* which has found the flag set
C15_Witness ==
  /\ prev.call.op = "unlock_device" /\ ~prev.call.flag /\ prev.res.err = ""
  /\ call.op = "unlock_device" /\ call.flag /\ Finished

\* the target answered at the call: the wire loses nothing, the target was
\* waiting for an instruction and its UPDI was not disabled
Responsive(c) == c.f = NoFault /\ c.quiet /\ ~c.off

RejectedOps == {"chip_erase", "read_flash", "write_flash", "write_fuse"}

\* the operation called has been refused for want of programming mode
Rejected == Finished /\ res.err = "Enter progmode first!" /\ tx = <<>>

\* C16 (leave_progmode): on a target that answers, leave_progmode writes 0x59
\* and then 0x00 to RESET_REQ, reads SYS_STATUS, and puts STCS CTRLB = 0x0C on
\* the wire as the last frame; when it has returned the progmode flag is
\* false, and a chip_erase, read_flash, write_flash or write_fuse that
\* follows is refused.
C16_LeaveProgmode ==
  /\ (call.op = "leave_progmode" /\ Responsive(call)) =>
       /\ Len(tx) >= 3
       /\ tx[1] = <<85, 200, 89>> /\ tx[2] = LdcsSysStatus /\ tx[3] = <<85, 200, 0>>
       /\ \A i \in 4..(Len(tx) - 1) : tx[i] = LdcsSysStatus
       /\ IF Finished
          THEN tx[Len(tx)] = <<85, 195, 12>> /\ res.err = "" /\ ~progmode
          ELSE Len(tx) > 3 => tx[Len(tx)] = LdcsSysStatus
  /\ (prev.call.op = "leave_progmode" /\ prev.res.err = "" /\ call.op \in RejectedOps) =>
       Rejected

\* leave_progmode has returned from programming mode, and the chip_erase
\* after it has been refused
C16_Witness ==
  /\ prev.call.op = "leave_progmode" /\ prev.call.inprog /\ Responsive(prev.call)
  /\ call.op = "chip_erase" /\ Rejected

\* C17 (progmode gating): called with the progmode flag false, chip_erase,
\* read_flash, write_flash and write_fuse raise "Enter progmode first!", put
\* nothing on the wire, write and read no page, and leave the flag false.
C17_ProgmodeGating ==
  (call.op \in RejectedOps /\ ~call.flag) =>
    Rejected /\ ~progmode /\ calls = <<>> /\ reads = <<>>

\* a write_flash called right after the construction has been refused
C17_Witness == nops = 1 /\ call.op = "write_flash" /\ ~call.flag /\ Rejected

\* the frames of read_data_words(address, words): ST ptr, REPEAT, LD *(ptr++)
ReadWordsFrames(address, words) ==
  << <<85, 105, address % 256, (address \div 256) % 256>>,
     <<85, 161, (words - 1) % 256, (words - 1) \div 256>>,
     <<85, 37>> >>

\* the address of the i-th page read of the running read_flash
PageAddress(i) == call.address + (i - 1) * device.flash_pagesize

RECURSIVE PagesRead(_)
\* what the first n page reads have returned, one after the other
PagesRead(n) == IF n = 0 THEN <<>> ELSE PagesRead(n - 1) \o rcv[2 * n]

\* C18 (read_flash paging): in programming mode read_flash(addr, size) with
\* size not a multiple of flash_pagesize raises with nothing put on the wire;
\* with size = k * flash_pagesize it calls
\* read_data_words(addr + i * flash_pagesize, flash_pagesize / 2) for
\* i = 0, 1, ... in this order and nothing else, k times unless a call
\* raises, and returns what the k calls returned, one after the other.
C18_ReadFlashPaging ==
  (call.op = "read_flash" /\ call.flag) =>
    IF call.size % device.flash_pagesize # 0
    THEN tx = <<>> /\ reads = <<>> /\ res.err = "Only full page aligned flash supported."
    ELSE /\ Len(reads) <= call.size \div device.flash_pagesize
         /\ \A i \in 1..Len(reads) : reads[i] = PageAddress(i)
         /\ Len(tx) <= 3 * Len(reads)
         /\ \A j \in 1..Len(tx) :
              tx[j] = ReadWordsFrames(PageAddress(1 + (j - 1) \div 3),
                                      device.flash_pagesize \div 2)[1 + ((j - 1) % 3)]
         /\ res.err = "" =>
              /\ Len(reads) = call.size \div device.flash_pagesize
              /\ Len(tx) = 3 * Len(reads)
              /\ res.ret = PagesRead(Len(reads))

\* two pages have been read
C18_Witness ==
  /\ call.op = "read_flash" /\ call.flag /\ res.err = ""
  /\ Len(reads) = 2 /\ Len(res.ret) = 2 * device.flash_pagesize

\* C19 (no silent erase): no operation but unlock_device puts the NVMErase
\* key on the wire, whether it returns or fails.
C19_NoSilentErase ==
  call.op # "unlock_device" =>
    \A i \in 1..Len(tx) : tx[i] # Reversed(UPDI_KEY_CHIPERASE)

\* an enter_progmode that has failed after it has sent its key
C19_Witness ==
  call.op = "enter_progmode" /\ Finished /\ res.err # "" /\ KeyCount(tx) = 1

\* LDS of NVMCTRL.STATUS, and the header of STS to a register of NVMCTRL
LdsStatus ==
  <<85, 4, (device.nvmctrl_address + UPDI_NVMCTRL_STATUS) % 256,
    (device.nvmctrl_address + UPDI_NVMCTRL_STATUS) \div 256>>

Sts(reg) ==
  <<85, 68, (device.nvmctrl_address + reg) % 256, (device.nvmctrl_address + reg) \div 256>>

\* what write_fuse(fusenum, value) puts on the wire after wait_flash_ready
FuseStores(fusenum, value) ==
  << Sts(UPDI_NVMCTRL_ADDRL), <<(device.fuses_address + fusenum) % 256>>,
     Sts(UPDI_NVMCTRL_ADDRH), <<(device.fuses_address + fusenum) \div 256>>,
     Sts(UPDI_NVMCTRL_DATAL), <<value>>,
     Sts(UPDI_NVMCTRL_CTRLA), <<UPDI_NVMCTRL_CTRLA_WRITE_FUSE>> >>

\* the reads of NVMCTRL.STATUS among the frames sent
StatusPolls == Cardinality({i \in 1..Len(tx) : tx[i] = LdsStatus})

\* the status byte shows the flash ready
Ready(status) ==
  /\ ~Bit(status, UPDI_NVM_STATUS_WRITE_ERROR)
  /\ ~Bit(status, UPDI_NVM_STATUS_EEPROM_BUSY)
  /\ ~Bit(status, UPDI_NVM_STATUS_FLASH_BUSY)

\* C20 (write_fuse ordering): in programming mode write_fuse(n, v) first
\* reads NVMCTRL.STATUS in wait_flash_ready and stores nothing before a read
\* has shown the flash ready; when the wait fails it raises with nothing
\* stored.  Then it stores the low byte of fuses_address + n to ADDRL, the
\* high byte to ADDRH, v to DATAL and WRITE_FUSE (7) to CTRLA, in this order.
C20_WriteFuseOrder ==
  (call.op = "write_fuse" /\ call.flag) =>
    /\ Len(tx) <= StatusPolls + 8
    /\ \A i \in 1..Len(tx) :
         tx[i] = IF i <= StatusPolls THEN LdsStatus
                 ELSE FuseStores(call.address, call.data[1])[i - StatusPolls]
    /\ Len(tx) > StatusPolls =>
         Len(rcv[StatusPolls]) = 1 /\ Ready(rcv[StatusPolls][1])
    /\ res.err = "Flash not ready for fuse setting" => Len(tx) = StatusPolls
    /\ (Finished /\ res.err = "") => Len(tx) = StatusPolls + 8

\* the fuse has been written
C20_Witness ==
  /\ call.op = "write_fuse" /\ call.flag /\ Finished /\ res.err = ""
  /\ (device.fuses_address + call.address) \in DOMAIN tgt.fuses
  /\ tgt.fuses[device.fuses_address + call.address] = call.data[1]

\* C21 (NVM variant selection): the write path is V1 only on a part whose SIB
\* reads "P:2"; a get_device_info that reads that SIB from a part that answers
\* returns and leaves the path at V1; and from then on a write_flash in
\* programming mode, on a part that answers and gets ready, returns without an
\* error after having written its pages with wait_flash_ready first and with
\* neither PAGE_BUFFER_CLR nor WRITE_PAGE.
C21_VariantSelection ==
  /\ write_nvm = "v1" => tgt.rev = "P:2"
  /\ (Finished /\ call.op = "get_device_info" /\ Responsive(call) /\ tgt.rev = "P:2") =>
       res.err = "" /\ write_nvm = "v1"
  /\ (/\ Finished /\ call.op = "write_flash" /\ call.inprog /\ write_nvm = "v1"
      /\ Responsive(call) /\ call.busy # -1 /\ call.data # <<>>) =>
       /\ res.err = ""
       /\ tx # <<>> /\ tx[1] = LdsStatus
       /\ \A i \in 2..Len(tx) :
            tx[i - 1] = Sts(UPDI_NVMCTRL_CTRLA) =>
              tx[i] \notin { <<UPDI_V0_NVMCTRL_CTRLA_PAGE_BUFFER_CLR>>,
                             <<UPDI_V0_NVMCTRL_CTRLA_WRITE_PAGE>> }

\* C23 (immediate return): enter_progmode called while the target, which
\* answers, already shows NVMPROG in SYS_STATUS reads SYS_STATUS once and
\* returns without an error: it sends no key and writes nothing to RESET_REQ.
C23_ImmediateReturn ==
  (call.op = "enter_progmode" /\ call.nvmprog /\ Responsive(call)) =>
    tx = <<LdcsSysStatus>> /\ Finished /\ res.err = ""

\* what enter_progmode puts on the wire up to the release of the reset, when
\* its first read of SYS_STATUS does not show NVMPROG
EnterFrames ==
  << LdcsSysStatus, KeyHeader, Reversed(UPDI_KEY_NVM), LdcsKeyStatus,
     <<85, 200, 89>>, LdcsSysStatus, <<85, 200, 0>> >>

\* enter_progmode has been called and has not read NVMPROG set at its start
Entering == call.op = "enter_progmode" /\ ~Bit(Read(1), UPDI_ASI_SYS_STATUS_NVMPROG)

\* C24 (enter-progmode ordering): on a target not yet in NVMPROG,
\* enter_progmode sends KEY NVMProg, reads KEY_STATUS, writes 0x59 and then
\* 0x00 to RESET_REQ and from then on only reads SYS_STATUS, in this order; if
\* KEY_STATUS does not show NVMPROG (bit 4) it fails with nothing written to
\* RESET_REQ; and the progmode flag is true only when the operation has
\* returned after a read of SYS_STATUS that showed NVMPROG (bit 3).
C24_EnterOrdering ==
  Entering =>
    /\ Len(tx) >= 4
    /\ \A i \in 1..Len(tx) :
         tx[i] = IF i <= Len(EnterFrames) THEN EnterFrames[i] ELSE LdcsSysStatus
    /\ ~Bit(Read(2), UPDI_ASI_KEY_STATUS_NVMPROG) =>
         Len(tx) = 4 /\ res.err = "Key not accepted"
    /\ (progmode /\ ~call.flag) =>
         /\ Finished /\ res.err = ""
         /\ Len(tx) > Len(EnterFrames)
         /\ Bit(Read(Len(rcv)), UPDI_ASI_SYS_STATUS_NVMPROG)

\* enter_progmode has brought a session into programming mode
C24_Witness ==
  /\ Entering /\ ~call.flag /\ ~call.nvmprog
  /\ Finished /\ res.err = "" /\ progmode /\ tgt.nvmprog

\* STCS of RESET_REQ with the reset value and with 0
ResetAssert == <<85, 200, 89>>

ResetRelease == <<85, 200, 0>>

\* the reads of the control/status space among the first j frames: the
\* read at j is the LdcsCount(j)-th receive of the operation
LdcsCount(j) ==
  Cardinality({i \in 1..j : tx[i] \in {LdcsSysStatus, LdcsKeyStatus}})

\* C28 (reset assert verification): in enter_progmode, unlock_device and
\* leave_progmode every write of 0x59 to RESET_REQ is followed by one read of
\* SYS_STATUS; if that read shows RSTSYS the write of 0x00 to RESET_REQ
\* follows, and if it does not the operation has failed with an error and
\* nothing more has been put on the wire.
C28_ResetAssertVerified ==
  call.op \in {"enter_progmode", "unlock_device", "leave_progmode"} =>
    \A j \in 1..Len(tx) :
      tx[j] = ResetAssert =>
        /\ j < Len(tx) /\ tx[j + 1] = LdcsSysStatus
        /\ IF Bit(Read(LdcsCount(j + 1)), UPDI_ASI_SYS_STATUS_RSTSYS)
           THEN j + 1 < Len(tx) /\ tx[j + 2] = ResetRelease
           ELSE Len(tx) = j + 1 /\ Finished /\ res.err # ""

\* a leave_progmode that did not read RSTSYS after its write of 0x59
C28_Witness ==
  /\ call.op = "leave_progmode" /\ Finished /\ res.err = "TypeError"
  /\ tx = <<ResetAssert, LdcsSysStatus>>

\* the receive that took the answer to the frame at j, in the operations of
\* the NVM controller: every frame is answered but the REPEAT
RcvIndex(j) == j - Cardinality({i \in 1..j : IsRepeat(tx[i])})

\* the frame at i is a read of NVMCTRL.STATUS that showed the flash ready
ReadyPoll(i) ==
  /\ tx[i] = LdsStatus
  /\ Len(rcv[RcvIndex(i)]) = 1 /\ Ready(rcv[RcvIndex(i)][1])

\* the frame at j starts the store of a command to NVMCTRL.CTRLA
IsCommand(j) == tx[j] = Sts(UPDI_NVMCTRL_CTRLA)

\* a poll that showed the flash ready lies before the command at j, with no
\* other command in between
Fenced(j) ==
  \E i \in 1..(j - 1) : ReadyPoll(i) /\ \A m \in (i + 1)..(j - 1) : ~IsCommand(m)

\* C27 (universal fence): in chip_erase, write_flash and write_fuse every
\* store of a command to NVMCTRL.CTRLA comes after a read of NVMCTRL.STATUS
\* that showed the flash ready, with no other command in between; and an
\* operation that has stored a command and returns without an error has read
\* NVMCTRL.STATUS after its last command.
C27_UniversalFence ==
  call.op \in {"chip_erase", "write_flash", "write_fuse"} =>
    /\ \A j \in 1..Len(tx) : IsCommand(j) => Fenced(j)
    /\ (Finished /\ res.err = "" /\ \E j \in 1..Len(tx) : IsCommand(j)) =>
         tx[Len(tx)] = LdsStatus

\* the header of STS to address, and ST to the pointer of address
StsHeader(address) == <<85, 68, address % 256, (address \div 256) % 256>>

StPtr(address) == <<85, 105, address % 256, (address \div 256) % 256>>

\* what write_data(address, data) is to put on the wire
WriteDataFrames(address, data) ==
  IF Len(data) = 1 THEN << StsHeader(address), <<data[1]>> >>
  ELSE IF Len(data) = 2
    THEN << StsHeader(address), <<data[1]>>, StsHeader(address + 1), <<data[2]>> >>
  ELSE IF Len(data) > 255 THEN <<>>
  ELSE << StPtr(address), <<85, 161, Len(data) - 1, 0>> >> \o Chunks(data, 1)

C30_WordBatchValidity ==
  call.op = "write_data_words" =>
    /\ (Len(call.data) % 2 = 1 \/ Len(call.data) > 510) => (tx = <<>> /\ res.err # "")
    /\ res.err = "" => (Len(call.data) % 2 = 0 /\ Len(call.data) <= 510)

\* C22 (flash bounds): write_flash(addr, data) with an image larger than
\* flash_size is rejected with an error before any page is written, so that
\* no page write ever targets an address at or beyond
\* flash_start + flash_size.
C22_FlashBounds ==
  call.op = "write_flash" =>
    /\ Len(call.data) > device.flash_size =>
         (calls = <<>> /\ tx = <<>> /\ (Finished => res.err # ""))
    /\ \A i \in 1..Len(calls) :
         calls[i].address < device.flash_start + device.flash_size

\* what write_data_words(address, data) puts on the wire for more than one word
WriteWordsFrames(address, data) ==
  << StPtr(address), <<85, 161, (Len(data) \div 2) - 1, 0>> >> \o Chunks(data, 2)

\* what write_nvm_v0(address, page) puts on the wire between its waits
PageWriteFrames(address, page) ==
  << Sts(UPDI_NVMCTRL_CTRLA), <<UPDI_V0_NVMCTRL_CTRLA_PAGE_BUFFER_CLR>> >>
  \o WriteWordsFrames(address, page)
  \o << Sts(UPDI_NVMCTRL_CTRLA), <<UPDI_V0_NVMCTRL_CTRLA_WRITE_PAGE>> >>

\* the frames of the page writes called so far, and the frames on the wire
\* that are not reads of NVMCTRL.STATUS
PlannedSteps ==
  Flatten([i \in 1..Len(calls) |-> PageWriteFrames(calls[i].address, calls[i].page)])

Steps == SelectSeq(tx, LAMBDA fr : fr # LdsStatus)

\* the place of the frame at j among the frames of its page write: 1 is the
\* PAGE_BUFFER_CLR command, 3 the pointer of the fill
StepAt(j) ==
  ((Cardinality({i \in 1..j : tx[i] # LdsStatus}) - 1)
     % Len(PageWriteFrames(0, calls[1].page))) + 1

\* the reads of NVMCTRL.STATUS that showed the flash ready in the run of
\* reads that ends just before the frame at j
ReadyBefore(j) ==
  Cardinality({i \in 1..(j - 1) :
                 ReadyPoll(i) /\ \A m \in i..(j - 1) : tx[m] = LdsStatus})

\* the frame at j, which is not a read of NVMCTRL.STATUS, comes after the
\* waits that write_nvm_v0 has before it
Waited(j) ==
  IF StepAt(j) = 1
    THEN ReadyPoll(j - 1)
         /\ ReadyBefore(j) >= (IF \E i \in 1..j : tx[i] = Sts(UPDI_NVMCTRL_CTRLA) /\ i < j
                               THEN 2 ELSE 1)
  ELSE IF StepAt(j) = 3 THEN ReadyPoll(j - 1)
  ELSE tx[j - 1] # LdsStatus

\* the answer to the frame at j
Answer(j) == rcv[RcvIndex(j)]

\* C25 (V0 page-write sequence): every page write of a write_flash in
\* programming mode puts on the wire, in this order, the PAGE_BUFFER_CLR
\* command, the fill of the page buffer at the address of the page and the
\* WRITE_PAGE command; a wait_flash_ready that has seen the flash ready
\* stands before the first command, before the fill and after the WRITE_PAGE
\* command, and nowhere else is NVMCTRL.STATUS read; a read that does not show
\* the flash ready is followed by another read or ends the operation with an
\* error; every frame but the last one on the wire has had its ACK, and a
\* missing ACK ends the operation with an error, so that WRITE_PAGE is given
\* only after every chunk of the page has been acknowledged.
C25_PageWriteSequence ==
  (call.op = "write_flash" /\ call.flag /\ Len(call.data) <= device.flash_size) =>
    /\ Len(Steps) <= Len(PlannedSteps)
    /\ Steps = SubSeq(PlannedSteps, 1, Len(Steps))
    /\ \A j \in 1..Len(tx) :
         IF tx[j] = LdsStatus
         THEN ReadyPoll(j)
              \/ (j < Len(tx) /\ tx[j + 1] = LdsStatus /\ Len(Answer(j)) = 1
                  /\ ~Bit(Answer(j)[1], UPDI_NVM_STATUS_WRITE_ERROR))
              \/ (j = Len(tx) /\ (pc.at \in {"wfr1", "wfr2", "wfr3"} \/ res.err # ""))
         ELSE /\ j > 1 /\ Waited(j)
              /\ IsRepeat(tx[j]) \/ Answer(j) = Ack \/ (j = Len(tx) /\ Finished /\ res.err # "")
    /\ (Finished /\ res.err = "") =>
         /\ Steps = PlannedSteps
         /\ Len(calls) = PagesFor(Len(call.data))
         /\ tx # <<>> => ReadyPoll(Len(tx))
    /\ (Finished /\ res.err # "") =>
         \/ tx = <<>>
         \/ tx[Len(tx)] = LdsStatus /\ ~ReadyPoll(Len(tx))
         \/ tx[Len(tx)] # LdsStatus /\ Answer(Len(tx)) # Ack

\* a page write has stopped at the lost ACK of the second word of the fill,
\* with no WRITE_PAGE command given
C25_Witness ==
  /\ call.op = "write_flash" /\ call.flag /\ Finished
  /\ res.err = "Error with st_ptr_inc16"
  /\ Len(Steps) = 6 /\ Steps = SubSeq(PlannedSteps, 1, 6)
  /\ rcv[Len(rcv)] = <<>>
  /\ \A j \in 1..Len(tx) : tx[j] # <<UPDI_V0_NVMCTRL_CTRLA_WRITE_PAGE>>

\* the operation stands in a wait_flash_ready of the application
InWait == pc.at \in {"wfr1", "wfr2", "wfr3"}

\* the step reads NVMCTRL.STATUS first, and the answer it gets
Polled == Len(tx') > Len(tx) /\ tx'[Len(tx) + 1] = LdsStatus

PolledStatus == rcv'[Len(rcv) + 1]

\* wait_flash_ready has returned false: the operation raises the error of
\* its failed wait with nothing more put on the wire
WaitFailed ==
  /\ pc'.op = "idle"
  /\ res'.err \in {"Timeout waiting for flash ready", "Flash not ready for fuse setting"}
  /\ Len(tx') = Len(tx) + (IF Polled THEN 1 ELSE 0)

\* wait_flash_ready has returned true: the operation has gone on to what
\* follows the wait
WaitPassed ==
  /\ pc'.op = "idle" \/ pc'.at # pc.at
  /\ res'.err \notin {"Timeout waiting for flash ready", "Flash not ready for fuse setting"}

\* wait_flash_ready has not returned
WaitGoesOn ==
  /\ pc'.op = pc.op /\ pc'.at = pc.at /\ calls' = calls
  /\ Len(tx') = Len(tx) + 1

\* C26 (wait_flash_ready result): an iteration of wait_flash_ready reads
\* NVMCTRL.STATUS exactly if the deadline of 10 s has not expired, and the
\* wait returns false when it has; a status with WRITE_ERROR set makes the
\* wait return false at once, whether or not a busy bit is set; a status with
\* WRITE_ERROR, FLASH_BUSY and EEPROM_BUSY clear makes it return true; any
\* other status leaves it waiting.  So it returns true exactly when a read
\* before the deadline shows the three bits clear and no read before it in
\* the same wait has shown WRITE_ERROR.
C26_WaitFlashReady ==
  [][InWait =>
       IF ~Polled THEN expired(pc.timeout, now) /\ WaitFailed
       ELSE /\ ~expired(pc.timeout, now)
            /\ IF Len(PolledStatus) # 1 THEN pc'.op = "idle" /\ res'.err = "IndexError"
               ELSE IF Bit(PolledStatus[1], UPDI_NVM_STATUS_WRITE_ERROR) THEN WaitFailed
               ELSE IF ~Bit(PolledStatus[1], UPDI_NVM_STATUS_FLASH_BUSY)
                       /\ ~Bit(PolledStatus[1], UPDI_NVM_STATUS_EEPROM_BUSY)
                 THEN WaitPassed
               ELSE WaitGoesOn]_vars

\* the wait after the CHIP_ERASE command has returned false at its first
\* read, which showed WRITE_ERROR together with EEPROM_BUSY
C26_Witness ==
  /\ call.op = "chip_erase" /\ call.flag /\ Finished
  /\ res.err = "Timeout waiting for flash ready"
  /\ Len(tx) = 4 /\ tx[4] = LdsStatus
  /\ rcv[Len(rcv)] = <<Shl(1, UPDI_NVM_STATUS_WRITE_ERROR) + Shl(1, UPDI_NVM_STATUS_EEPROM_BUSY)>>

\* the reads of the running or last receive that returned nothing
EmptyReads == {i \in 1..Len(pc.log) : pc.log[i] = <<>>}

\* C31 (receive is bounded): receive(size) makes at most size reads that
\* return a byte and at most one that returns nothing, and no read after the
\* one that returned nothing; what it has read, and what it returns, are the
\* bytes in the order of their arrival, at most size of them; with every
\* byte in time it returns what the closed form of the loop returns.
C31_ReceiveBounded ==
  call.op = "receive" =>
    /\ Cardinality(EmptyReads) <= 1
    /\ EmptyReads \subseteq {Len(pc.log)}
    /\ Len(pc.log) - Cardinality(EmptyReads) <= call.size
    /\ Len(pc.l.response) = Len(pc.log) - Cardinality(EmptyReads)
    /\ Len(pc.l.response) <= call.size
    /\ pc.l.response = Take(call.data, Len(pc.l.response))
    /\ Finished =>
         /\ res.ret = pc.l.response
         /\ Len(res.ret) = call.size \/ EmptyReads # {}
         /\ (EmptyReads = {} \/ rx = <<>>) =>
              res.ret = receive_loop(call.data, call.size, 1).response

\* a receive of three bytes has returned the one byte that came before the
\* read that returned nothing, with two more bytes arriving later
C31_Witness ==
  /\ call.op = "receive" /\ Finished /\ call.size = 3
  /\ Len(res.ret) = 1 /\ Len(rx) = 2 /\ Len(pc.log) = 2

\* C32 (ldcs on a silent target): ldcs(addr) sends the one frame SYNC,
\* LDCS | (addr & 0x0F) and reads one answer of one byte, no ACK; it returns
\* the byte received, and 0x00 when nothing was received, and it raises no
\* error.
C32_LdcsSilent ==
  call.op = "ldcs" =>
    /\ tx = << <<85, 128 + (call.address % 16)>> >>
    /\ Len(rcv) = 1 /\ Len(rcv[1]) <= 1
    /\ res.err = ""
    /\ res.val = IF rcv[1] = <<>> THEN 0 ELSE rcv[1][1]

\* a ldcs of ASI_KEY_STATUS whose answer was lost has returned 0x00 without
\* an error
C32_Witness ==
  /\ call.op = "ldcs" /\ call.address = UPDI_ASI_KEY_STATUS /\ call.f.kind = "silent"
  /\ Finished /\ rcv = << <<>> >> /\ res.val = 0 /\ res.err = ""

\* what send_double_break does to the port, with the handles open after each
DoubleBreakPort ==
  << [ev |-> "close", h |-> WorkingPort, open |-> <<>>],
     [ev |-> "open", h |-> TemporaryPort, open |-> <<TemporaryPort>>],
     [ev |-> "write", h |-> TemporaryPort, open |-> <<TemporaryPort>>],
     [ev |-> "read", h |-> TemporaryPort, open |-> <<TemporaryPort>>],
     [ev |-> "close", h |-> TemporaryPort, open |-> <<>>],
     [ev |-> "open", h |-> WorkingPort, open |-> <<WorkingPort>>] >>

\* the double breaks on the wire
DoubleBreaks == {i \in 1..Len(tx) : tx[i] = DoubleBreak}

\* C33 (double-break port handling): send_double_break closes the working
\* port, opens the port at 300 baud with one stop bit, writes the two 0x00
\* bytes on it and reads two bytes back, closes it, and opens the port at
\* the working baud with even parity and two stop bits; never are two
\* handles open at once, after every operation exactly the working port is
\* open, and the port is closed or opened only by send_double_break, and
\* opened once when the link is constructed.
C33_DoubleBreakPort ==
  /\ \A i \in 1..Len(port.log) : Len(port.log[i].open) <= 1
  /\ port.open = <<WorkingPort>>
  /\ port.log =
       (IF call.op = "UpdiDatalink"
        THEN << [ev |-> "open", h |-> WorkingPort, open |-> <<WorkingPort>>] >>
        ELSE <<>>)
       \o (IF DoubleBreaks # {} THEN DoubleBreakPort ELSE <<>>)
  /\ Cardinality(DoubleBreaks) <= 1
  /\ DoubleBreaks # {} => call.op = "UpdiDatalink"
  /\ \A i \in 1..Len(tx) : tx[i] = DoubleBreak => eaten[i] <= 2

\* a link has been constructed with a double break
C33_Witness ==
  /\ call.op = "UpdiDatalink" /\ Finished /\ res.err = ""
  /\ DoubleBreaks # {}
  /\ Len(port.log) = 7 /\ port.open = <<WorkingPort>>

\* the sends of the running operation that read back fewer bytes than they
\* wrote
LostEchoes == {i \in 1..Len(eaten) : i <= Len(tx) /\ eaten[i] < Len(tx[i])}

\* C34 (lost echo): a send whose echo read returns fewer bytes than were
\* written fails with an error, and it is the last thing the enclosing
\* operation does on the wire: no send and no receive follows it.
C34_LostEcho ==
  \A i \in LostEchoes : res.err # "" /\ Len(tx) = i /\ rcv = <<>>

\* what a st_ptr with the given instruction byte does on the wire: the four
\* bytes SYNC, instruction, low and high byte of the address are sent in one
\* frame, one answer of one byte is read, and the call fails with
\* "Error with st_ptr" unless that answer is the ACK 0x40
StPtrWire(instruction) ==
  /\ tx = <<<<85, instruction, call.address % 256, call.address \div 256>>>>
  /\ Len(rcv) = 1 /\ Len(rcv[1]) <= 1
  /\ res.err = (IF rcv[1] = Ack THEN "" ELSE "Error with st_ptr")

\* C35 (st_ptr encoding) as stated: st_ptr(a) puts 55 68 (a & 0xFF) (a >> 8)
\* on the wire, reads one ACK, and fails if it is missing or not 0x40.
C35_StPtrEncoding_Stated == call.op = "st_ptr" => StPtrWire(104)

\* C35 (st_ptr encoding) as amended: for every 16-bit address a, st_ptr(a)
\* puts exactly the four bytes 55 69 (a & 0xFF) (a >> 8) on the wire, reads
\* one ACK, and fails if it is missing or not 0x40.
C35_StPtrEncoding == call.op = "st_ptr" => StPtrWire(105)

\* a st_ptr(0x8000) that was acknowledged
C35_Witness ==
  /\ call.op = "st_ptr" /\ call.address = 32768
  /\ tx = <<<<85, 105, 0, 128>>>> /\ rcv = <<Ack>> /\ res.err = ""

\* the frames of the running operation that are st_ptr instructions (ST with
\* the pointer mode "address"), in the order sent
IsStPtr(frame) == Len(frame) >= 4 /\ frame[1] = 85 /\ frame[2] \div 4 = 26

PointerFrames == SelectSeq(tx, IsStPtr)

\* the address a st_ptr frame carries: its address bytes, low byte first
PointerOf(frame) ==
  frame[3] + Shl(frame[4], 8) + (IF Len(frame) > 4 THEN Shl(frame[5], 16) ELSE 0)

\* the j-th st_ptr of a read_flash or write_flash carries the address of the
\* j-th page
FullPointers ==
  call.op \in {"read_flash", "write_flash"} =>
    \A j \in 1..Len(PointerFrames) :
      PointerOf(PointerFrames[j]) = call.address + (j - 1) * device.flash_pagesize

\* C36 (no address truncation): for every device and every page touched by
\* read_flash or write_flash, the address bytes st_ptr puts on the wire
\* encode the full address flash_start + offset of the page; on the AVR-Dx
\* parts (flash_start 0x800000) the address is not cut to its low 16 bits.
C36_NoTruncation == FullPointers

\* the same on the parts whose flash lies within the 16-bit addresses
C36_NoTruncationTiny == (device = DeviceTiny) => FullPointers

\* C37 (complete reads): a read_flash(addr, size) that returns a value
\* returns exactly size bytes; a page of which the target delivers fewer bytes
\* than were asked for never leads to a shortened or shifted result.
C37_CompleteReads ==
  (Finished /\ call.op = "read_flash" /\ res.err = "") => Len(res.ret) = call.size

\* the same when every answer of the target arrives
C37_CompleteReadsNoFault ==
  (Finished /\ call.op = "read_flash" /\ res.err = "" /\ call.f = NoFault /\ call.quiet)
    => Len(res.ret) = call.size

\* C38 (progmode flag consistency): between the operations of a session,
\* whatever enter_progmode, unlock_device, leave_progmode, reads, writes,
\* erases and fuse writes came before and whether they failed, a progmode
\* flag that is true means that NVMPROG is set in the target's SYS_STATUS.
C38_FlagConsistency == (pc.op = "idle" /\ progmode) => tgt.nvmprog

CtrlbDisable == <<85, 195, 12>>

\* C39 (flag unchanged on failure): an enter_progmode or unlock_device that
\* fails at any step leaves the progmode flag of the programmer as it was
\* before the call; a leave_progmode that fails during its reset pulse
\* leaves the flag as it was and has not sent the write to CTRLB that
\* disables the UPDI.
C39_FlagUnchangedOnFailure ==
  (Finished /\ res.err # ""
   /\ call.op \in {"enter_progmode", "unlock_device", "leave_progmode"}) =>
    /\ progmode = call.flag
    /\ call.op = "leave_progmode" =>
         \A i \in 1..Len(tx) : tx[i] # CtrlbDisable

\* a leave_progmode in programming mode that failed in its reset pulse, the
\* flag still set
C39_Witness ==
  /\ Finished /\ call.op = "leave_progmode" /\ res.err # ""
  /\ call.flag /\ progmode
  /\ tx[Len(tx)] = LdcsSysStatus

\* the last receive of the running operation took one byte from the target,
\* and the given bit is clear in it
AnsweredClear(bit) ==
  /\ rcv # <<>>
  /\ Len(rcv[Len(rcv)]) = 1
  /\ ~Bit(rcv[Len(rcv)][1], bit)

\* the wait for the release of the reset has just ended
ResetWaitOver ==
  \/ pc.at \in {"nvmprog", "unlocked"} /\ pc.polls = 0
  \/ Finished /\ call.op = "leave_progmode" /\ res.err = ""

\* wait_unlocked has returned true
UnlockedWaitOver ==
  Finished /\ call.op = "unlock_device" /\ ~call.flag /\ res.err = ""

\* C40 (silence is not success): the wait for the release of the reset ends
\* only after a SYS_STATUS byte of the target with RSTSYS clear, and
\* wait_unlocked returns true only after one with LOCKSTATUS clear; a poll
\* that the target does not answer ends neither, so that unlock_device does
\* not set the progmode flag on a target that has stopped answering.
C40_SilenceIsNotSuccess ==
  /\ ResetWaitOver => AnsweredClear(UPDI_ASI_SYS_STATUS_RSTSYS)
  /\ UnlockedWaitOver => AnsweredClear(UPDI_ASI_SYS_STATUS_LOCKSTATUS)

\* the same on a wire that loses no answer, with a target whose UPDI is on
C40_AnswersEndWaits ==
  (call.f = NoFault /\ ~call.off) => C40_SilenceIsNotSuccess

====
